---- MODULE Spec2Model ----
(***************************************************************************)
(* A model of the decision-and-execution core of the MEV bot:              *)
(*   - NonceManager          (src/blockchain/nonce_manager.py)             *)
(*   - StrategyManager       (src/bot/strategy_manager.py)                 *)
(*   - RPCManager            (src/utils/rpc_manager.py)                    *)
(*   - KillSwitch            (src/utils/kill_switch.py)                    *)
(*   - DataCache             (src/utils/data_cache.py)                     *)
(*   - Multicall             (src/utils/multicall.py)                      *)
(*   - TipOptimizer          (src/ml/tip_optimizer.py)                     *)
(*   - MempoolMonitor        (src/monitoring/mempool_monitor.py)           *)
(*   - MEVBotEngine          (src/bot/bot_engine.py)                       *)
(*   - KillSwitch, concurrent callers (src/utils/kill_switch.py)           *)
(*   - NonceManager.speed_up_transaction (src/blockchain/nonce_manager.py) *)
(* Each component has its own specification (SpecNonce, SpecSelect, ...)   *)
(* over the shared variable tuple; a component's actions leave             *)
(* the other components' variables unchanged.                              *)
(***************************************************************************)
EXTENDS Integers, Sequences, FiniteSets, TLC

(***************************************************************************)
(* Bounds of the model                                                     *)
(***************************************************************************)
\* number of asyncio tasks that use the NonceManager concurrently
NumTasks == 2
\* get_nonce is not started once current_nonce has reached this value
MaxNonce == 2
\* the network's transaction count for the executor stays within 0..MaxChain
MaxChain == 2
\* select_best_opportunity is given lists of at most MaxOpps entries
MaxOpps == 3
\* make_call is invoked at most MaxCalls times
MaxCalls == 2
\* the KillSwitch clock stays within 0..MaxClock
MaxClock == 3
\* record_loss is not applied once daily_loss would exceed MaxLoss
MaxLoss == 5
\* record_failed_transaction is not applied once failed_tx_count would exceed this
MaxFailures == 3
\* at most MaxPending tasks created by manual_trigger await their turn
MaxPending == 1
\* the DataCache clock stays within 0..MaxCacheTime
MaxCacheTime == 3
\* Multicall.aggregate is given batches of at most MaxBatch calls
MaxBatch == 3
\* the MempoolMonitor loop time stays within 0..MaxMempoolTime
MaxMempoolTime == 4
\* at most MaxAttempts calls of trigger between two resets
MaxAttempts == 2
\* the fee fields of the transaction given to speed_up_transaction are within 1..MaxFee
MaxFee == 9

Tasks == 1..NumTasks
Nonces == 0..MaxNonce

\* self.current_nonce = None (nonce_manager.py:30), as an integer outside the nonces
NoNonce == -1
\* asyncio.Lock() not held by any task
NoTask == 0

VARIABLES
    \* ---- NonceManager ----
    current_nonce,      \* self.current_nonce
    pending_nonces,     \* self.pending_nonces
    lock,               \* self.lock: the task holding it, or NoTask
    pc,                 \* per task: "idle" or "locked" (inside `async with self.lock`)
    call,               \* per task: the operation it is running, with its argument
    chainCount,         \* w3.eth.get_transaction_count(executor, 'pending')
    last,               \* the operation that completed last, with its result
    \* history of the ledger, kept for the statements about it
    startNonce,         \* current_nonce after construction or the last resync
    issued,             \* nonces returned by get_nonce since then, in order
    live,               \* nonces returned by get_nonce, not since confirmed/cancelled
    \* ---- StrategyManager ----
    opportunities,      \* the list passed to select_best_opportunity
    min_confidence,     \* config['ml_optimization']['min_confidence_score'], in 1/100
    selected,           \* the value select_best_opportunity returned
    selPc,              \* "ready" before the call, "done" after it
    \* ---- RPCManager ----
    fallback_sequence,  \* config['failover_strategy']['fallback_sequence']
    w3_instances,       \* the tiers whose Web3 instance connected
    current_tier,       \* self.current_tier
    usage_stats,        \* self.usage_stats
    rpcPc,              \* "idle", or "loop" inside make_call's retry loop
    tier_arg,           \* make_call's tier argument (NoTier for None)
    tier_name,          \* make_call's local tier_name
    attempt,            \* make_call's loop variable
    callResult,         \* how the last make_call ended
    calls,              \* number of make_call invocations so far
    \* history, kept for the statements about failover
    lastReq,            \* the last request sent by the current (or last) make_call
    expected,           \* the tier a failover of current_tier promised, or NoTier
    \* ---- KillSwitch ----
    max_daily_loss_usd, \* self.max_daily_loss_usd
    max_failed_tx,      \* self.max_failed_tx
    auto_kill_enabled,  \* self.auto_kill_enabled
    alert_system,       \* whether self.alert_system is set
    clock,              \* time.time(), in half days
    triggered,          \* self.triggered
    trigger_reason,     \* self.trigger_reason
    trigger_time,       \* self.trigger_time
    daily_loss,         \* self.daily_loss
    failed_tx_count,    \* self.failed_tx_count
    last_reset_day,     \* self.last_reset_day
    trigger_tasks,      \* tasks created by manual_trigger that have not run yet
    ksLast,             \* the KillSwitch operation that ran last, with the alert it sent
    \* ---- DataCache ----
    conn,               \* whether self.conn is a connection (None if _init_db failed)
    cache,              \* the rows of the table `cache`, by key
    cache_time,         \* time.time(), in ticks
    setValue,           \* per key, the value of the last set that stored a row
    cacheLast,          \* the DataCache operation that ran last, with its result
    \* ---- Multicall ----
    mc_calls,           \* the list passed to aggregate
    chunk_size,         \* self.chunk_size
    allow_failure,      \* aggregate's allow_failure argument
    mcPc,               \* "ready" before aggregate, "loop" inside it, "done" after it
    chunk_index,        \* number of chunks executed so far
    all_results,        \* aggregate's local all_results
    chunk_ok,           \* per executed chunk, whether its round trip worked
    mcResult,           \* the list aggregate returned
    \* ---- TipOptimizer ----
    min_tip_gwei,       \* self.min_tip_gwei
    max_tip_gwei,       \* self.max_tip_gwei
    opportunity,        \* the dict passed to calculate_optimal_tip
    tip_history_len,    \* len(self.tip_history)
    ml_prediction,      \* what _ml_predict_tip returns for the opportunity, in gwei
    tipPc,              \* "ready" before the call, "done" after it
    optimal_tip_wei,    \* the value calculate_optimal_tip returned, in 1/80 gwei
    \* ---- MempoolMonitor ----
    pending_txs,        \* self.pending_txs: per hash the timestamp of its entry, or NoEntry
    tx_order,           \* the keys of self.pending_txs in the order of the dict
    mp_time,            \* asyncio.get_event_loop().time(), in ticks of 20 seconds
    mp_running,         \* self.running
    ws,                 \* self.ws is a socket (TRUE) or None (FALSE)
    ws_connected,       \* self.ws_connected
    startPc,            \* where the task of start() is
    loopPc,             \* where the task of _monitor_loop is
    rcPc,               \* where a call of reconnect() is
    tx_tasks,           \* hashes whose _process_pending_tx task has not run yet
    slept,              \* seconds the loop has slept since the last receive error or attempt
    awaiting_reconnect, \* a receive error happened and no reconnect attempt since
    ws_url_cache,       \* rpc_manager.ws_url_cache holds a URL
    mpLast,             \* the read of the cache made last, if nothing happened since
    \* ---- MEVBotEngine ----
    running,            \* self.running
    paused,             \* self.paused
    mev_boost_enabled,  \* config['mev_boost']['enabled']
    strategies,         \* the strategies s with config['strategies'][s]['enabled']
    stopPc,             \* where the task of MEVBotRunner.stop() is
    enginePc,           \* where the task of main_loop is
    cycle,              \* what the last cycle of main_loop did
    waited,             \* ticks _wait_for_confirmation has slept so far
    shutdown,           \* what emergency_shutdown did
    \* ---- KillSwitch under concurrent callers ----
    recorded,           \* the losses and failures the callers recorded on the last day of recording
    trip_attempts,      \* calls of trigger since construction or the last reset
    notifications,      \* critical alerts sent since construction or the last reset
    \* ---- NonceManager.speed_up_transaction ----
    original_tx,        \* the dict passed to speed_up_transaction
    new_tx,             \* the dict speed_up_transaction returned
    suPc                \* "ready" before the call, "done" after it

nonceVars == <<current_nonce, pending_nonces, lock, pc, call, chainCount, last,
               startNonce, issued, live>>

selectVars == <<opportunities, min_confidence, selected, selPc>>

rpcVars == <<fallback_sequence, w3_instances, current_tier, usage_stats, rpcPc,
             tier_arg, tier_name, attempt, callResult, calls,
             lastReq, expected>>

killVars == <<max_daily_loss_usd, max_failed_tx, auto_kill_enabled, alert_system,
              clock, triggered, trigger_reason, trigger_time, daily_loss,
              failed_tx_count, last_reset_day, trigger_tasks, ksLast>>

cacheVars == <<conn, cache, cache_time, setValue, cacheLast>>

multicallVars == <<mc_calls, chunk_size, allow_failure, mcPc, chunk_index,
                   all_results, chunk_ok, mcResult>>

tipVars == <<min_tip_gwei, max_tip_gwei, opportunity, tip_history_len, ml_prediction,
             tipPc, optimal_tip_wei>>

mempoolVars == <<pending_txs, tx_order, mp_time, mp_running, ws, ws_connected,
                 startPc, loopPc, rcPc, tx_tasks, slept, awaiting_reconnect,
                 mpLast, ws_url_cache>>

engineVars == <<running, paused, mev_boost_enabled, strategies, enginePc, stopPc, cycle, waited,
                shutdown>>

killCallVars == <<recorded, trip_attempts, notifications>>

speedUpVars == <<original_tx, new_tx, suPc>>

vars == <<nonceVars, selectVars, rpcVars, killVars, cacheVars, multicallVars,
          tipVars, mempoolVars, engineVars, killCallVars, speedUpVars>>

\* what a component's actions leave alone
notNonce == <<selectVars, rpcVars, killVars, cacheVars, multicallVars,
              tipVars, mempoolVars, engineVars, killCallVars, speedUpVars>>
notSelect == <<nonceVars, rpcVars, killVars, cacheVars, multicallVars,
               tipVars, mempoolVars, engineVars, killCallVars, speedUpVars>>
notRpc == <<nonceVars, selectVars, killVars, cacheVars, multicallVars,
            tipVars, mempoolVars, engineVars, killCallVars, speedUpVars>>
notKill == <<nonceVars, selectVars, rpcVars, cacheVars, multicallVars,
             tipVars, mempoolVars, engineVars, killCallVars, speedUpVars>>
notCache == <<nonceVars, selectVars, rpcVars, killVars, multicallVars,
              tipVars, mempoolVars, engineVars, killCallVars, speedUpVars>>
notMulticall == <<nonceVars, selectVars, rpcVars, killVars, cacheVars,
                  tipVars, mempoolVars, engineVars, killCallVars,
                  speedUpVars>>
notTip == <<nonceVars, selectVars, rpcVars, killVars, cacheVars,
            multicallVars, mempoolVars, engineVars, killCallVars,
            speedUpVars>>
notMempool == <<nonceVars, selectVars, rpcVars, killVars, cacheVars,
                multicallVars, tipVars, engineVars, killCallVars,
                speedUpVars>>
notEngine == <<nonceVars, selectVars, rpcVars, killVars, cacheVars,
               multicallVars, tipVars, mempoolVars, killCallVars,
               speedUpVars>>
notEngineAndKill == <<nonceVars, selectVars, rpcVars, cacheVars,
                      multicallVars, tipVars, mempoolVars, killCallVars,
                      speedUpVars>>
notEngineCycle == <<nonceVars, selectVars, rpcVars, multicallVars, tipVars,
                    killCallVars, speedUpVars>>
notKillCalls == <<nonceVars, selectVars, rpcVars, killVars, cacheVars,
                  multicallVars, tipVars, mempoolVars, engineVars,
                  speedUpVars>>
notKillAndCalls == <<nonceVars, selectVars, rpcVars, cacheVars,
                     multicallVars, tipVars, mempoolVars, engineVars,
                     speedUpVars>>
notSpeedUp == <<nonceVars, selectVars, rpcVars, killVars, cacheVars,
                multicallVars, tipVars, mempoolVars, engineVars,
                killCallVars>>

(***************************************************************************)
(* StrategyManager                                                         *)
(* Money is in whole dollars, confidence in hundredths.                    *)
(***************************************************************************)
\* a None entry of the list, and the None that is returned
None == [none |-> TRUE]
IsNone(opp) == "none" \in DOMAIN opp

\* self.priority_map
priority_map ==
    [s \in {"sandwich_attack", "flashloan_arbitrage", "liquidation_arbitrage",
            "triangular_arbitrage", "direct_arbitrage"} |->
        CASE s = "sandwich_attack"       -> 5
          [] s = "flashloan_arbitrage"   -> 4
          [] s = "liquidation_arbitrage" -> 4
          [] s = "triangular_arbitrage"  -> 3
          [] s = "direct_arbitrage"      -> 2]

\* a tie-break that ignores the strategy
Priority_Flat(strategy) == 0

\* self.priority_map.get(x['strategy'], 0)
Priority(strategy) ==
    IF strategy \in DOMAIN priority_map THEN priority_map[strategy] ELSE 0

\* a confidence lookup whose default passes every threshold
GetConfidence_DefaultOne(opp) ==
    IF "confidence" \in DOMAIN opp THEN opp.confidence ELSE 100

\* opp.get('confidence', 0)
GetConfidence(opp) ==
    IF "confidence" \in DOMAIN opp THEN opp.confidence ELSE 0

\* similar_profit_threshold = 2.0
similar_profit_threshold == 2

Abs(x) == IF x < 0 THEN -x ELSE x

\* a sort that forgot reverse=True; keys[i] is the key of s[i]
StableSortAsc(s, keys) ==
    LET n == Len(s)
        rank(i) == 1 + Cardinality({j \in 1..n :
                          \/ keys[j] < keys[i]
                          \/ keys[j] = keys[i] /\ j < i})
    IN [r \in 1..n |-> s[CHOOSE i \in 1..n : rank(i) = r]]

\* list.sort(key=..., reverse=True), keys[i] being the key of s[i]: descending
\* by key, and stable (entries with equal keys keep their order)
StableSortDesc(s, keys) ==
    LET n == Len(s)
        rank(i) == 1 + Cardinality({j \in 1..n :
                          \/ keys[j] > keys[i]
                          \/ keys[j] = keys[i] /\ j < i})
    IN [r \in 1..n |-> s[CHOOSE i \in 1..n : rank(i) = r]]

ProfitKey(opp) == opp.expected_profit_usd
PriorityKey(opp) == Priority(opp.strategy)

\* confident_opps.sort(key=lambda x: x['expected_profit_usd'], reverse=True)
SortByProfit(s) == StableSortDesc(s, [i \in 1..Len(s) |-> ProfitKey(s[i])])

\* a priority sort that forgot reverse=True
SortByPriority_Ascending(s) ==
    StableSortAsc(s, [i \in 1..Len(s) |-> PriorityKey(s[i])])

\* similar_opps.sort(key=lambda x: self.priority_map.get(x['strategy'], 0), reverse=True)
SortByPriority(s) == StableSortDesc(s, [i \in 1..Len(s) |-> PriorityKey(s[i])])

select_best_opportunity(opps, minc) ==
    LET valid_opps == SelectSeq(opps, LAMBDA o : ~IsNone(o))
    IN IF valid_opps = <<>> THEN None
       ELSE
       LET confident_opps ==
               SelectSeq(valid_opps, LAMBDA o : GetConfidence(o) >= minc)
       IN IF confident_opps = <<>> THEN None
          ELSE
          LET sorted_opps == SortByProfit(confident_opps)
              top_opp == sorted_opps[1]
              similar_opps ==
                  SelectSeq(sorted_opps, LAMBDA o :
                      Abs(o.expected_profit_usd - top_opp.expected_profit_usd)
                          <= similar_profit_threshold)
          IN IF Len(similar_opps) > 1
             THEN SortByPriority(similar_opps)[1]
             ELSE top_opp

\* the opportunities the strategies produce in the model
Strategies == {"sandwich_attack", "direct_arbitrage", "unlisted_strategy"}
Profits == {50, 51, 53}
Confidences == {80}
MinConfidences == {75, 85}

\* the two opportunities of the ranking example
OppA == [strategy |-> "sandwich_attack", expected_profit_usd |-> 50, confidence |-> 80]
OppB == [strategy |-> "direct_arbitrage", expected_profit_usd |-> 51, confidence |-> 90]

\* entries with a confidence, entries without the key, the example's B, and None
OppDomain ==
    [strategy : Strategies, expected_profit_usd : Profits, confidence : Confidences]
    \cup [strategy : Strategies, expected_profit_usd : Profits]
    \cup {OppA, OppB, None}

OppLists == UNION {[1..n -> OppDomain] : n \in 0..MaxOpps}

SelectInit ==
    /\ opportunities \in OppLists
    /\ min_confidence \in MinConfidences
    /\ selected = None
    /\ selPc = "ready"

\* the StrategyManager of a run in which only another component is exercised
SelectIdle ==
    /\ opportunities = <<>>
    /\ min_confidence = 75
    /\ selected = None
    /\ selPc = "ready"

SelectBest ==
    /\ selPc = "ready"
    /\ selected' = select_best_opportunity(opportunities, min_confidence)
    /\ selPc' = "done"
    /\ UNCHANGED <<opportunities, min_confidence>>
    /\ UNCHANGED notSelect

(***************************************************************************)
(* RPCManager                                                              *)
(* All four tiers have an HTTP URL configured (self.tiers); which of them  *)
(* connected (self.w3_instances) and the configured fallback sequence are  *)
(* fixed at construction.                                                  *)
(***************************************************************************)
TierNames == {"tier_1", "tier_2", "tier_3", "tier_4"}
\* self.tiers.keys(): 'archive_tier' is skipped by _init_tiers
tiers == TierNames
\* tier=None
NoTier == "None"
\* the values callers pass as make_call's tier argument
TierArgs == {NoTier, "tier_1", "tier_3", "archive_tier"}
\* the values callers pass to force_tier
ForceArgs == {"tier_3", "tier_4", "archive_tier"}

FallbackSequences ==
    { <<"tier_1", "tier_2", "tier_3">>,
      <<"tier_1", "tier_2", "tier_3", "tier_4">> }

\* max_retries = 3
max_retries == 3

IndexOf(seq, x) == CHOOSE i \in 1..Len(seq) : seq[i] = x
InSeq(seq, x) == \E i \in 1..Len(seq) : seq[i] = x

\* a fallback that starts over from the first tier after the last one
get_next_tier_WrapAround(seq, t) ==
    IF InSeq(seq, t)
    THEN IF IndexOf(seq, t) + 1 <= Len(seq) THEN seq[IndexOf(seq, t) + 1]
                                             ELSE seq[1]
    ELSE "tier_1"

\* _get_next_tier: the next tier of the sequence, NoTier (None) after the
\* last one, and 'tier_1' for a tier that is not in the sequence. list.index
\* finds the first occurrence.
get_next_tier(seq, t) ==
    IF InSeq(seq, t)
    THEN IF IndexOf(seq, t) + 1 <= Len(seq) THEN seq[IndexOf(seq, t) + 1]
                                             ELSE NoTier
    ELSE "tier_1"

\* get_web3: the tier whose Web3 instance is used for tier t; "KeyError"
\* when neither t nor tier_1 has one
get_web3(t) ==
    IF t \in w3_instances THEN t
    ELSE IF "tier_1" \in w3_instances THEN "tier_1" ELSE "KeyError"

ZeroStats == [requests |-> 0, failures |-> 0, last_failure_time |-> 0]

\* no request sent yet in this make_call
NoReq == [tier |-> NoTier, endpoint |-> NoTier, outcome |-> "none",
          current |-> NoTier, expected |-> NoTier, after |-> NoTier]

\* the tiers that connected in _create_web3_instances
ConnectedSets == { tiers, tiers \ {"tier_2"}, {"tier_2", "tier_3"} }

RECURSIVE SumFailures(_)
SumFailures(ts) ==
    IF ts = {} THEN 0
    ELSE LET t == CHOOSE x \in ts : TRUE
         IN usage_stats[t].failures + SumFailures(ts \ {t})

\* time.time() at a recorded failure: the failures are the only events that
\* read the clock, so the time is counted in failures recorded so far
Now == SumFailures(DOMAIN usage_stats) + 1

RpcInit ==
    /\ fallback_sequence \in FallbackSequences
    /\ w3_instances \in ConnectedSets
    /\ current_tier = "tier_1"
    /\ usage_stats = [t \in tiers |-> ZeroStats]
    /\ rpcPc = "idle"
    /\ tier_arg = NoTier
    /\ tier_name = NoTier
    /\ attempt = 0
    /\ callResult = "none"
    /\ calls = 0
    /\ lastReq = NoReq
    /\ expected = NoTier

\* the RPCManager of a run in which only another component is exercised
RpcIdle ==
    /\ fallback_sequence = <<"tier_1", "tier_2", "tier_3">>
    /\ w3_instances = tiers
    /\ RpcInit

\* make_call up to the first loop iteration
make_call(arg) ==
    /\ rpcPc = "idle"
    /\ calls < MaxCalls
    /\ calls' = calls + 1
    /\ tier_arg' = arg
    /\ tier_name' = IF arg # NoTier THEN arg ELSE current_tier
    /\ attempt' = 0
    /\ rpcPc' = "loop"
    /\ callResult' = "running"
    /\ lastReq' = NoReq
    /\ expected' = IF arg # NoTier THEN NoTier ELSE expected
    /\ UNCHANGED <<fallback_sequence, w3_instances, current_tier, usage_stats>>
    /\ UNCHANGED notRpc

\* the call ends with result r
EndCall(r) ==
    /\ rpcPc' = "idle"
    /\ callResult' = r
    /\ UNCHANGED <<attempt>>

\* the loop goes on with the next attempt, or ends and make_call returns None
Continue ==
    IF attempt + 1 < max_retries
    THEN /\ attempt' = attempt + 1
         /\ UNCHANGED <<rpcPc, callResult>>
    ELSE EndCall("returned_none")

\* a handler that falls out of the loop after the last attempt
RetryOrRaise_ReturnNone == Continue

\* the `else` branch of the handler: another attempt, or re-raise on the last
RetryOrRaise ==
    IF attempt < max_retries - 1
    THEN /\ attempt' = attempt + 1
         /\ UNCHANGED <<rpcPc, callResult>>
    ELSE EndCall("raised_error")

\* one request sent to the endpoint of tier e, with its outcome o; `after`
\* is current_tier once the outcome has been handled
Logged(e, o, after) ==
    lastReq' = [tier |-> tier_name, endpoint |-> e, outcome |-> o,
                current |-> current_tier, expected |-> expected, after |-> after]

\* get_web3 raises KeyError: no request is sent, the error is not a rate limit
AttemptNoEndpoint ==
    /\ rpcPc = "loop"
    /\ get_web3(tier_name) = "KeyError"
    /\ RetryOrRaise
    /\ UNCHANGED <<fallback_sequence, w3_instances, current_tier, usage_stats,
                   tier_arg, tier_name, calls, lastReq, expected>>
    /\ UNCHANGED notRpc

\* the request succeeds; the bookkeeping raises KeyError for an unknown tier
AttemptOk ==
    /\ rpcPc = "loop"
    /\ get_web3(tier_name) # "KeyError"
    /\ Logged(get_web3(tier_name), "ok", current_tier)
    /\ expected' = NoTier
    /\ IF tier_name \in DOMAIN usage_stats
       THEN /\ usage_stats' = [usage_stats EXCEPT ![tier_name].requests = @ + 1]
            /\ EndCall("returned")
       ELSE /\ RetryOrRaise
            /\ UNCHANGED usage_stats
    /\ UNCHANGED <<fallback_sequence, w3_instances, current_tier,
                   tier_arg, tier_name, calls>>
    /\ UNCHANGED notRpc

\* the request fails with a rate-limit error
AttemptRateLimited ==
    /\ rpcPc = "loop"
    /\ get_web3(tier_name) # "KeyError"
    /\ IF tier_name \notin DOMAIN usage_stats
       THEN \* KeyError inside the handler leaves make_call
            /\ Logged(get_web3(tier_name), "rate_limit", current_tier)
            /\ expected' = NoTier
            /\ EndCall("raised_in_handler")
            /\ UNCHANGED <<usage_stats, tier_name, current_tier>>
       ELSE LET next_tier == get_next_tier(fallback_sequence, tier_name)
            IN /\ usage_stats' = [usage_stats EXCEPT
                      ![tier_name].failures = @ + 1,
                      ![tier_name].last_failure_time = Now]
               /\ IF next_tier # NoTier
                  THEN /\ tier_name' = next_tier
                       /\ current_tier' = next_tier
                       /\ Logged(get_web3(tier_name), "rate_limit", next_tier)
                       /\ expected' =
                              IF /\ tier_name = current_tier
                                 /\ get_web3(tier_name) = tier_name
                                 /\ InSeq(fallback_sequence, tier_name)
                              THEN next_tier ELSE NoTier
                       /\ Continue
                  ELSE /\ Logged(get_web3(tier_name), "rate_limit", current_tier)
                       /\ expected' = NoTier
                       /\ EndCall("raised_exhausted")
                       /\ UNCHANGED <<tier_name, current_tier>>
    /\ UNCHANGED <<fallback_sequence, w3_instances, tier_arg, calls>>
    /\ UNCHANGED notRpc

\* the request fails with another error
AttemptError ==
    /\ rpcPc = "loop"
    /\ get_web3(tier_name) # "KeyError"
    /\ Logged(get_web3(tier_name), "error", current_tier)
    /\ expected' = NoTier
    /\ RetryOrRaise
    /\ UNCHANGED <<fallback_sequence, w3_instances, current_tier, usage_stats,
                   tier_arg, tier_name, calls>>
    /\ UNCHANGED notRpc

force_tier(t) ==
    /\ rpcPc = "idle"
    /\ current_tier' = IF t \in tiers THEN t ELSE current_tier
    /\ expected' = NoTier
    /\ UNCHANGED <<fallback_sequence, w3_instances, usage_stats, rpcPc, tier_arg,
                   tier_name, attempt, callResult, calls, lastReq>>
    /\ UNCHANGED notRpc

reset_tier_to_primary ==
    /\ rpcPc = "idle"
    /\ current_tier' = "tier_1"
    /\ expected' = NoTier
    /\ UNCHANGED <<fallback_sequence, w3_instances, usage_stats, rpcPc, tier_arg,
                   tier_name, attempt, callResult, calls, lastReq>>
    /\ UNCHANGED notRpc

\* the components that reach the network through a Web3 instance
Components == {"engine", "simulator", "gas_calculator", "nonce_manager",
               "multicall", "mempool_enrichment"}

\* MEVBotEngine.__init__: self.w3 = self.rpc_manager.get_web3(), asked for
\* once while current_tier is still 'tier_1'; the same instance is handed to
\* the constructors of the other components
engine_w3 == get_web3("tier_1")

\* the tier whose endpoint a network access of component c goes to: only
\* _process_pending_tx asks get_web3() again at each access
Dispatch(c) ==
    IF c = "mempool_enrichment" THEN get_web3(current_tier) ELSE engine_w3

RpcNext ==
    \/ \E arg \in TierArgs : make_call(arg)
    \/ AttemptNoEndpoint
    \/ AttemptOk
    \/ AttemptRateLimited
    \/ AttemptError
    \/ \E t \in ForceArgs : force_tier(t)
    \/ reset_tier_to_primary

(***************************************************************************)
(* NonceManager                                                            *)
(***************************************************************************)
\* _sync_nonce: the value it stores in current_nonce. `ok` is whether
\* get_transaction_count answered; on any exception the code stores 0.
SyncNonce(ok) == IF ok THEN chainCount ELSE 0

NoCall == [op |-> "none", arg |-> 0]
Done(o, r) == [op |-> o, result |-> r]

\* __init__: the ledger is empty, the lock is free and current_nonce was
\* synced from the chain (or set to 0 when the read failed).
NonceInit ==
    /\ chainCount \in 0..MaxChain
    /\ \E ok \in BOOLEAN : current_nonce = SyncNonce(ok)
    /\ pending_nonces = {}
    /\ lock = NoTask
    /\ pc = [t \in Tasks |-> "idle"]
    /\ call = [t \in Tasks |-> NoCall]
    /\ last = Done("init", 0)
    /\ startNonce = current_nonce
    /\ issued = <<>>
    /\ live = {}

\* the NonceManager of a run in which only another component is exercised
NonceIdle == chainCount = 0 /\ current_nonce = 0 /\ NonceInit

\* `async with self.lock:` entered by task t for operation o with argument a
Acquire(t, o, a) ==
    /\ pc[t] = "idle"
    /\ lock = NoTask
    /\ lock' = t
    /\ pc' = [pc EXCEPT ![t] = "locked"]
    /\ call' = [call EXCEPT ![t] = [op |-> o, arg |-> a]]
    /\ UNCHANGED <<current_nonce, pending_nonces, chainCount, last,
                   startNonce, issued, live>>
    /\ UNCHANGED notNonce

\* leaving the `async with` block and returning r
Release(t, r) ==
    /\ lock' = NoTask
    /\ pc' = [pc EXCEPT ![t] = "idle"]
    /\ last' = Done(call[t].op, r)
    /\ call' = [call EXCEPT ![t] = NoCall]
    /\ UNCHANGED notNonce

Held(t, o) == pc[t] = "locked" /\ lock = t /\ call[t].op = o

\* a get_nonce that hands out current_nonce without advancing it
NextNonce_NoIncrement(n) == n

\* get_nonce: the value of current_nonce after the allocation of nonce n
NextNonce(n) == n + 1

get_nonce_acquire(t) ==
    /\ current_nonce < MaxNonce
    /\ Acquire(t, "get_nonce", 0)

get_nonce(t) ==
    /\ Held(t, "get_nonce")
    /\ \E ok \in BOOLEAN :
         LET synced == IF current_nonce = NoNonce THEN SyncNonce(ok)
                                               ELSE current_nonce
             nonce  == synced
         IN /\ current_nonce' = NextNonce(nonce)
            /\ pending_nonces' = pending_nonces \cup {nonce}
            /\ issued' = Append(issued, nonce)
            /\ live' = live \cup {nonce}
            /\ Release(t, nonce)
    /\ UNCHANGED <<chainCount, startNonce>>

confirm_nonce_acquire(t) == \E n \in Nonces : Acquire(t, "confirm_nonce", n)

\* confirm_nonce: pending_nonces after confirming nonce n
ConfirmPending(n) == IF n \in pending_nonces THEN pending_nonces \ {n}
                                              ELSE pending_nonces

confirm_nonce(t) ==
    /\ Held(t, "confirm_nonce")
    /\ pending_nonces' = ConfirmPending(call[t].arg)
    /\ live' = live \ {call[t].arg}
    /\ Release(t, 0)
    /\ UNCHANGED <<current_nonce, chainCount, startNonce, issued>>

reset_nonce_acquire(t) == Acquire(t, "reset_nonce", 0)

reset_nonce(t) ==
    /\ Held(t, "reset_nonce")
    /\ \E ok \in BOOLEAN :
         /\ current_nonce' = SyncNonce(ok)
         /\ Release(t, IF ok THEN 1 ELSE 0)
    /\ pending_nonces' = {}
    /\ startNonce' = current_nonce'
    /\ issued' = <<>>
    /\ UNCHANGED <<chainCount, live>>

force_sync_acquire(t) == Acquire(t, "force_sync", 0)

force_sync(t) ==
    /\ Held(t, "force_sync")
    /\ \E ok \in BOOLEAN :
         /\ current_nonce' = SyncNonce(ok)
         /\ Release(t, IF ok THEN 1 ELSE 0)
    /\ startNonce' = current_nonce'
    /\ issued' = <<>>
    /\ UNCHANGED <<pending_nonces, chainCount, live>>

\* The operations below take no lock and contain no await: each runs as one step.
Unlocked(o, r) ==
    /\ last' = Done(o, r)
    /\ UNCHANGED <<lock, pc, call, chainCount, startNonce, issued>>
    /\ UNCHANGED notNonce

get_pending_count ==
    /\ Unlocked("get_pending_count", Cardinality(pending_nonces))
    /\ UNCHANGED <<current_nonce, pending_nonces, live>>

\* cancel_transaction only builds the replacement transaction for nonce n
cancel_transaction ==
    \E n \in Nonces :
        /\ Unlocked("cancel_transaction", n)
        /\ live' = live \ {n}
        /\ UNCHANGED <<current_nonce, pending_nonces>>

\* speed_up_transaction copies the transaction it is given, nonce included,
\* and reads nothing of the ledger
speed_up_transaction ==
    /\ Unlocked("speed_up_transaction", 0)
    /\ UNCHANGED <<current_nonce, pending_nonces, live>>

\* check_stuck_transactions reads the ledger; the result is the number of
\* nonces it reports. The per-nonce lookup is called with the nonce alone and
\* raises, so every pending nonce is reported, or none when reading the
\* block number fails
check_stuck_transactions ==
    \E ok \in BOOLEAN :
        /\ Unlocked("check_stuck_transactions",
                    IF ok THEN Cardinality(pending_nonces) ELSE 0)
        /\ UNCHANGED <<current_nonce, pending_nonces, live>>

\* a get_current_nonce that re-reads the chain on every call
CurrentNonceRead_AlwaysSync(ok) == SyncNonce(ok)

\* get_current_nonce: syncs only while current_nonce is None
CurrentNonceRead(ok) == IF current_nonce = NoNonce THEN SyncNonce(ok)
                                                   ELSE current_nonce

get_current_nonce ==
    \E ok \in BOOLEAN :
        /\ current_nonce' = CurrentNonceRead(ok)
        /\ Unlocked("get_current_nonce", current_nonce')
        /\ UNCHANGED <<pending_nonces, live>>

\* the network: the executor's transaction count moves by one
ChainStep ==
    /\ \E c \in 0..MaxChain :
         /\ c \in {chainCount - 1, chainCount + 1}
         /\ chainCount' = c
    /\ last' = Done("chain", chainCount')
    /\ UNCHANGED <<current_nonce, pending_nonces, lock, pc, call,
                   startNonce, issued, live>>
    /\ UNCHANGED notNonce

NonceNext ==
    \/ \E t \in Tasks : get_nonce_acquire(t)
    \/ \E t \in Tasks : get_nonce(t)
    \/ \E t \in Tasks : confirm_nonce_acquire(t)
    \/ \E t \in Tasks : confirm_nonce(t)
    \/ \E t \in Tasks : reset_nonce_acquire(t)
    \/ \E t \in Tasks : reset_nonce(t)
    \/ \E t \in Tasks : force_sync_acquire(t)
    \/ \E t \in Tasks : force_sync(t)
    \/ get_pending_count
    \/ cancel_transaction
    \/ speed_up_transaction
    \/ check_stuck_transactions
    \/ get_current_nonce
    \/ ChainStep

(***************************************************************************)
(* KillSwitch                                                              *)
(* Losses are in whole dollars.  The clock counts half days, so that       *)
(* _get_current_day is a division that rounds down.  Every operation runs  *)
(* to its end without yielding before its last statement: record_loss and  *)
(* trigger await only the alert they send as their last statement.         *)
(***************************************************************************)
\* clock ticks in a day (86400 seconds of time.time())
DayLength == 2

\* self.trigger_reason = None
NoReason == [kind |-> "none", amount |-> 0]
\* self.trigger_time = None
NoTime == -1

\* no operation has run yet
NoKillOp == [op |-> "none", alert |-> "none"]

\* config['risk_management']['max_daily_loss_usd']
MaxDailyLosses == {2, 3}
\* config['risk_management']['max_failed_tx_before_pause']
MaxFailedTxs == {1, 2}
\* the loss_usd arguments of record_loss
Losses == {-2, 1, 3}
\* the largest of them
LargestLoss == CHOOSE l \in Losses : \A m \in Losses : m <= l

_get_current_day == clock \div DayLength

\* a rollover that zeroes the counters whatever the day
_reset_daily_counters_Always ==
    [daily_loss |-> 0, failed_tx_count |-> 0, last_reset_day |-> _get_current_day]

\* a rollover that keeps the failure count
_reset_daily_counters_KeepFailures ==
    IF _get_current_day > last_reset_day
    THEN [daily_loss |-> 0, failed_tx_count |-> failed_tx_count,
          last_reset_day |-> _get_current_day]
    ELSE [daily_loss |-> daily_loss, failed_tx_count |-> failed_tx_count,
          last_reset_day |-> last_reset_day]

\* the counters after _reset_daily_counters()
_reset_daily_counters ==
    IF _get_current_day > last_reset_day
    THEN [daily_loss |-> 0, failed_tx_count |-> 0,
          last_reset_day |-> _get_current_day]
    ELSE [daily_loss |-> daily_loss, failed_tx_count |-> failed_tx_count,
          last_reset_day |-> last_reset_day]

\* the tripped state as it is, and no alert
Ignored ==
    [triggered |-> triggered, trigger_reason |-> trigger_reason,
     trigger_time |-> trigger_time, alert |-> "none"]

\* the tripped state set by a trigger that takes effect
Tripped(reason) ==
    [triggered |-> TRUE, trigger_reason |-> reason, trigger_time |-> clock,
     alert |-> IF alert_system THEN "critical" ELSE "none"]

\* a trigger that clears a tripped switch
trigger_Toggle(reason) ==
    IF triggered
    THEN [triggered |-> FALSE, trigger_reason |-> NoReason,
          trigger_time |-> NoTime, alert |-> "none"]
    ELSE IF ~auto_kill_enabled THEN Ignored ELSE Tripped(reason)

\* a trigger that trips again when already tripped
trigger_Again(reason) ==
    IF ~auto_kill_enabled THEN Ignored ELSE Tripped(reason)

\* a trigger that leaves a tripped switch as it is but sends the alert again
trigger_AlertAgain(reason) ==
    IF ~auto_kill_enabled THEN Ignored
    ELSE IF triggered
    THEN [Ignored EXCEPT !.alert = IF alert_system THEN "critical" ELSE "none"]
    ELSE Tripped(reason)

\* the tripped state and the alert sent after trigger(reason)
trigger(reason) ==
    IF triggered THEN Ignored
    ELSE IF ~auto_kill_enabled THEN Ignored
    ELSE Tripped(reason)

\* the tripped state becomes t, the operation o is recorded with its alert
KillDone(o, t) ==
    /\ triggered' = t.triggered
    /\ trigger_reason' = t.trigger_reason
    /\ trigger_time' = t.trigger_time
    /\ ksLast' = [op |-> o, alert |-> t.alert]

\* the counters become r
Counters(r) ==
    /\ daily_loss' = r.daily_loss
    /\ failed_tx_count' = r.failed_tx_count
    /\ last_reset_day' = r.last_reset_day

KillConfig == <<max_daily_loss_usd, max_failed_tx, auto_kill_enabled, alert_system>>

KillInit ==
    /\ max_daily_loss_usd \in MaxDailyLosses
    /\ max_failed_tx \in MaxFailedTxs
    /\ auto_kill_enabled \in BOOLEAN
    /\ alert_system \in BOOLEAN
    /\ clock \in 0..(DayLength - 1)
    /\ triggered = FALSE
    /\ trigger_reason = NoReason
    /\ trigger_time = NoTime
    /\ daily_loss = 0
    /\ failed_tx_count = 0
    /\ last_reset_day = _get_current_day
    /\ trigger_tasks = 0
    /\ ksLast = NoKillOp

\* the KillSwitch of a run in which only another component is exercised
KillIdle ==
    /\ max_daily_loss_usd = 2
    /\ max_failed_tx = 2
    /\ auto_kill_enabled = TRUE
    /\ alert_system = TRUE
    /\ clock = 0
    /\ KillInit

record_loss(loss_usd) ==
    LET r == _reset_daily_counters
        total == r.daily_loss + Abs(loss_usd)
    IN /\ total <= MaxLoss
       /\ Counters([r EXCEPT !.daily_loss = total])
       /\ IF total >= max_daily_loss_usd
          THEN KillDone("record_loss", trigger([kind |-> "loss", amount |-> total]))
          ELSE KillDone("record_loss", Ignored)
       /\ UNCHANGED <<KillConfig, clock, trigger_tasks>>
       /\ UNCHANGED notKill

\* at the limit the alert is sent by a task of its own; the switch stays as it is
record_failed_transaction ==
    LET r == _reset_daily_counters
        count == r.failed_tx_count + 1
    IN /\ count <= MaxFailures
       /\ Counters([r EXCEPT !.failed_tx_count = count])
       /\ KillDone("record_failed_transaction",
                   [Ignored EXCEPT !.alert =
                       IF count >= max_failed_tx /\ alert_system
                       THEN "high" ELSE "none"])
       /\ UNCHANGED <<KillConfig, clock, trigger_tasks>>
       /\ UNCHANGED notKill

\* trigger(reason) called directly
call_trigger ==
    /\ KillDone("trigger", trigger([kind |-> "direct", amount |-> 0]))
    /\ UNCHANGED <<KillConfig, clock, daily_loss, failed_tx_count, last_reset_day,
                   trigger_tasks>>
    /\ UNCHANGED notKill

is_triggered ==
    /\ KillDone("is_triggered", Ignored)
    /\ UNCHANGED <<KillConfig, clock, daily_loss, failed_tx_count, last_reset_day,
                   trigger_tasks>>
    /\ UNCHANGED notKill

check_daily_loss ==
    /\ Counters(_reset_daily_counters)
    /\ KillDone("check_daily_loss", Ignored)
    /\ UNCHANGED <<KillConfig, clock, trigger_tasks>>
    /\ UNCHANGED notKill

get_status ==
    /\ Counters(_reset_daily_counters)
    /\ KillDone("get_status", Ignored)
    /\ UNCHANGED <<KillConfig, clock, trigger_tasks>>
    /\ UNCHANGED notKill

reset ==
    /\ KillDone("reset", [triggered |-> FALSE, trigger_reason |-> NoReason,
                          trigger_time |-> NoTime, alert |-> "none"])
    /\ UNCHANGED <<KillConfig, clock, daily_loss, failed_tx_count, last_reset_day,
                   trigger_tasks>>
    /\ UNCHANGED notKill

\* manual_trigger only creates the task that will run trigger(reason)
manual_trigger ==
    /\ trigger_tasks < MaxPending
    /\ trigger_tasks' = trigger_tasks + 1
    /\ KillDone("manual_trigger", Ignored)
    /\ UNCHANGED <<KillConfig, clock, daily_loss, failed_tx_count, last_reset_day>>
    /\ UNCHANGED notKill

\* the event loop runs a task created by manual_trigger
run_trigger_task ==
    /\ trigger_tasks > 0
    /\ trigger_tasks' = trigger_tasks - 1
    /\ KillDone("trigger_task", trigger([kind |-> "manual", amount |-> 0]))
    /\ UNCHANGED <<KillConfig, clock, daily_loss, failed_tx_count, last_reset_day>>
    /\ UNCHANGED notKill

\* time.time() advances
Tick ==
    /\ clock < MaxClock
    /\ clock' = clock + 1
    /\ UNCHANGED <<KillConfig, triggered, trigger_reason, trigger_time, daily_loss,
                   failed_tx_count, last_reset_day, trigger_tasks, ksLast>>
    /\ UNCHANGED notKill

KillNext ==
    \/ \E l \in Losses : record_loss(l)
    \/ record_failed_transaction
    \/ call_trigger
    \/ is_triggered
    \/ check_daily_loss
    \/ get_status
    \/ reset
    \/ manual_trigger
    \/ run_trigger_task
    \/ Tick

(***************************************************************************)
(* DataCache                                                               *)
(* The table `cache` of the SQLite database maps a key to its row, if any. *)
(* A Python value is a record of its type and content, a JSON text a       *)
(* record of its kind and content.                                         *)
(***************************************************************************)
CacheKeys == {"a", "b"}
\* the ttl arguments of set, in clock ticks
Ttls == {0, 1, 2}

PyInt == [t |-> "int", v |-> <<7>>]
PyTuple == [t |-> "tuple", v |-> <<1, 2>>]
PyList == [t |-> "list", v |-> <<1, 2>>]
PySet == [t |-> "set", v |-> <<1, 2>>]
PyNone == [t |-> "none", v |-> <<>>]
\* the placeholder price 1.0 of the engine
PyFloat == [t |-> "float", v |-> <<1>>]
\* the value arguments of set
CacheValues == {PyInt, PyTuple, PySet, PyNone}

\* json.dumps raised TypeError
JsonTypeError == [j |-> "TypeError", v |-> <<>>]

json_dumps(value) ==
    CASE value.t = "int" -> [j |-> "number", v |-> value.v]
      [] value.t = "float" -> [j |-> "real", v |-> value.v]
      [] value.t \in {"tuple", "list"} -> [j |-> "array", v |-> value.v]
      [] value.t = "none" -> [j |-> "null", v |-> <<>>]
      [] OTHER -> JsonTypeError

json_loads(text) ==
    CASE text.j = "number" -> [t |-> "int", v |-> text.v]
      [] text.j = "real" -> [t |-> "float", v |-> text.v]
      [] text.j = "array" -> [t |-> "list", v |-> text.v]
      [] OTHER -> PyNone

\* no row with the key
NoRow == [value |-> JsonTypeError, timestamp |-> -1, ttl |-> -1]

\* an expiry test that drops the entry at age = ttl already
Expired_AtTtl(age, ttl) == age >= ttl

\* `if age > ttl` in get
Expired(age, ttl) == age > ttl

\* no operation has run yet
NoCacheOp == [op |-> "none", key |-> "", result |-> PyNone]

CacheInit ==
    /\ conn \in BOOLEAN
    /\ cache = [k \in CacheKeys |-> NoRow]
    /\ cache_time = 0
    /\ setValue = [k \in CacheKeys |-> PyNone]
    /\ cacheLast = NoCacheOp

\* the DataCache of a run in which only another component is exercised
CacheIdle ==
    /\ conn = TRUE
    /\ CacheInit

\* an exception inside set is logged and the table stays as it is
cache_set(key, value, ttl) ==
    /\ IF conn /\ json_dumps(value) # JsonTypeError
       THEN /\ cache' = [cache EXCEPT ![key] =
                           [value |-> json_dumps(value),
                            timestamp |-> cache_time, ttl |-> ttl]]
            /\ setValue' = [setValue EXCEPT ![key] = value]
       ELSE UNCHANGED <<cache, setValue>>
    /\ cacheLast' = [op |-> "set", key |-> key, result |-> PyNone]
    /\ UNCHANGED <<conn, cache_time>>
    /\ UNCHANGED notCache

cache_get(key) ==
    /\ IF ~conn \/ cache[key] = NoRow
       THEN /\ cacheLast' = [op |-> "get", key |-> key, result |-> PyNone]
            /\ UNCHANGED cache
       ELSE IF Expired(cache_time - cache[key].timestamp, cache[key].ttl)
       THEN /\ cache' = [cache EXCEPT ![key] = NoRow]
            /\ cacheLast' = [op |-> "get", key |-> key, result |-> PyNone]
       ELSE /\ cacheLast' = [op |-> "get", key |-> key,
                             result |-> json_loads(cache[key].value)]
            /\ UNCHANGED cache
    /\ UNCHANGED <<conn, cache_time, setValue>>
    /\ UNCHANGED notCache

cache_delete(key) ==
    /\ cache' = IF conn THEN [cache EXCEPT ![key] = NoRow] ELSE cache
    /\ cacheLast' = [op |-> "delete", key |-> key, result |-> PyNone]
    /\ UNCHANGED <<conn, cache_time, setValue>>
    /\ UNCHANGED notCache

clear_expired ==
    /\ cache' = [k \in CacheKeys |->
                    IF /\ conn
                       /\ cache[k] # NoRow
                       /\ cache[k].timestamp + cache[k].ttl < cache_time
                    THEN NoRow ELSE cache[k]]
    /\ cacheLast' = [op |-> "clear_expired", key |-> "", result |-> PyNone]
    /\ UNCHANGED <<conn, cache_time, setValue>>
    /\ UNCHANGED notCache

clear_all ==
    /\ cache' = IF conn THEN [k \in CacheKeys |-> NoRow] ELSE cache
    /\ cacheLast' = [op |-> "clear_all", key |-> "", result |-> PyNone]
    /\ UNCHANGED <<conn, cache_time, setValue>>
    /\ UNCHANGED notCache

\* time.time() advances
CacheTick ==
    /\ cache_time < MaxCacheTime
    /\ cache_time' = cache_time + 1
    /\ UNCHANGED <<conn, cache, setValue, cacheLast>>
    /\ UNCHANGED notCache

CacheNext ==
    \/ \E k \in CacheKeys, v \in CacheValues, t \in Ttls : cache_set(k, v, t)
    \/ \E k \in CacheKeys : cache_get(k)
    \/ \E k \in CacheKeys : cache_delete(k)
    \/ clear_expired
    \/ clear_all
    \/ CacheTick

(***************************************************************************)
(* Multicall                                                               *)
(* A call of the batch is described by what the network does with it: its  *)
(* target is a well-formed address or not, the call succeeds or reverts,   *)
(* and it returns some bytes (0 for the empty byte string).                *)
(***************************************************************************)
\* the entries a batch is made of
GoodCall1 == [target_ok |-> TRUE, success |-> TRUE, return_data |-> 1]
GoodCall2 == [target_ok |-> TRUE, success |-> TRUE, return_data |-> 2]
EmptyCall == [target_ok |-> TRUE, success |-> TRUE, return_data |-> 0]
RevertCall == [target_ok |-> TRUE, success |-> FALSE, return_data |-> 0]
BadTargetCall == [target_ok |-> FALSE, success |-> FALSE, return_data |-> 0]
CallKinds == {GoodCall1, GoodCall2, EmptyCall, RevertCall, BadTargetCall}

\* the batches passed to aggregate
Batches == UNION {[1..n -> CallKinds] : n \in 0..MaxBatch}
\* the chunk_size arguments of the constructor
ChunkSizes == 1..MaxBatch

\* None as an entry of the result list
NoneResult == -1
\* aggregate has not returned
NoResultList == <<-2>>

Min(a, b) == IF a < b THEN a ELSE b

\* len(chunks): the number of slices calls[i:i + chunk_size]
NumChunks(n, size) == (n + size - 1) \div size

\* the k-th slice calls[i:i + chunk_size], k from 1
Chunk(cs, size, k) == SubSeq(cs, (k - 1) * size + 1, Min(k * size, Len(cs)))

\* [None] * len(calls)
AllNone(n) == [i \in 1..n |-> NoneResult]

\* the decoded entry of one aggregate3 result
Decode(c) ==
    IF c.success /\ c.return_data # 0 THEN c.return_data ELSE NoneResult

\* the list _execute_chunk returns; rpc_ok: the round trip itself works
_execute_chunk(cs, allow, rpc_ok) ==
    IF \E i \in 1..Len(cs) : ~cs[i].target_ok
    THEN AllNone(Len(cs))      \* to_checksum_address raises
    ELSE IF ~rpc_ok
    THEN AllNone(Len(cs))      \* the request raises
    ELSE IF ~allow /\ \E i \in 1..Len(cs) : ~cs[i].success
    THEN AllNone(Len(cs))      \* aggregate3 reverts
    ELSE [i \in 1..Len(cs) |-> Decode(cs[i])]

MulticallInit ==
    /\ mc_calls \in Batches
    /\ chunk_size \in ChunkSizes
    /\ allow_failure \in BOOLEAN
    /\ mcPc = "ready"
    /\ chunk_index = 0
    /\ all_results = <<>>
    /\ chunk_ok = <<>>
    /\ mcResult = NoResultList

\* the Multicall of a run in which only another component is exercised
MulticallIdle ==
    /\ mc_calls = <<>>
    /\ chunk_size = 1
    /\ allow_failure = TRUE
    /\ MulticallInit

\* aggregate up to the loop over the chunks
aggregate ==
    /\ mcPc = "ready"
    /\ IF mc_calls = <<>>
       THEN /\ mcPc' = "done"
            /\ mcResult' = <<>>
       ELSE /\ mcPc' = "loop"
            /\ UNCHANGED mcResult
    /\ UNCHANGED <<mc_calls, chunk_size, allow_failure, chunk_index, all_results,
                   chunk_ok>>
    /\ UNCHANGED notMulticall

\* one iteration of the loop: the next chunk is executed, its results appended
execute_chunk ==
    /\ mcPc = "loop"
    /\ chunk_index < NumChunks(Len(mc_calls), chunk_size)
    /\ \E rpc_ok \in BOOLEAN :
          /\ all_results' = all_results \o
                 _execute_chunk(Chunk(mc_calls, chunk_size, chunk_index + 1),
                                allow_failure, rpc_ok)
          /\ chunk_ok' = Append(chunk_ok, rpc_ok)
    /\ chunk_index' = chunk_index + 1
    /\ UNCHANGED <<mc_calls, chunk_size, allow_failure, mcPc, mcResult>>
    /\ UNCHANGED notMulticall

\* the loop is over: return all_results
aggregate_return ==
    /\ mcPc = "loop"
    /\ chunk_index = NumChunks(Len(mc_calls), chunk_size)
    /\ mcPc' = "done"
    /\ mcResult' = all_results
    /\ UNCHANGED <<mc_calls, chunk_size, allow_failure, chunk_index, all_results,
                   chunk_ok>>
    /\ UNCHANGED notMulticall

MulticallNext ==
    \/ aggregate
    \/ execute_chunk
    \/ aggregate_return

(***************************************************************************)
(* TipOptimizer                                                            *)
(* Tips are counted in 1/80 gwei and profits in millionths of a dollar:    *)
(* on the inputs below every product of the computation (x 1.125, x 1.5,   *)
(* x 0.6, x 0.4, / 0.0000008) is then a whole number, and so is the result *)
(* in wei (1/80 gwei = 12,500,000 wei), which int() leaves as it is.       *)
(***************************************************************************)
\* tip units in a gwei
TipUnit == 80
\* profit units in a dollar
Dollar == 1000000

\* config['mev_boost']['min_tip_gwei'] and ['max_tip_gwei'], in gwei
MinTips == {1, 30}
MaxTips == {100, 500}
\* opportunity['expected_profit_usd']: $0, $0.0001, $1, $60, $150
TipProfits == {0, 100, Dollar, 60 * Dollar, 150 * Dollar}
\* opportunity['data']: without and with the victim's gas price, in gwei
TipData == {[pool |-> 0], [victim_gas_price_gwei |-> 80]}
\* self._ml_predict_tip(...), in gwei
MlTips == {0, 100}

\* the opportunity dicts: complete, without 'data', without the profit,
\* without the strategy
TipOpps ==
    [expected_profit_usd : TipProfits,
     strategy : {"sandwich_attack", "direct_arbitrage"}, data : TipData]
    \cup [expected_profit_usd : TipProfits,
          strategy : {"sandwich_attack", "direct_arbitrage"}]
    \cup [strategy : {"direct_arbitrage"}]
    \cup [expected_profit_usd : {Dollar}]

Max(a, b) == IF a > b THEN a ELSE b

\* (expected_profit_usd * 0.10) / 0.0000008, in tip units
max_acceptable_tip(profit) == profit * 10

\* opportunity['data'].get('victim_gas_price_gwei', 50), in gwei
victim_gas_price(opp) ==
    IF "victim_gas_price_gwei" \in DOMAIN opp.data
    THEN opp.data.victim_gas_price_gwei ELSE 50

\* the tip after the sandwich rule
AfterSandwich(opp, tip) ==
    IF opp.strategy = "sandwich_attack"
    THEN Max(tip, (victim_gas_price(opp) * TipUnit * 1125) \div 1000)
    ELSE tip

\* the tip after the profit bands: the `elif` is tried only at $50 or less
AfterProfitBands(profit, tip) ==
    IF profit > 50 * Dollar THEN (tip * 15) \div 10
    ELSE IF profit > 100 * Dollar THEN tip * 2
    ELSE tip

\* the tip after the blend with the model's prediction
AfterBlend(tip, blend, ml_tip) ==
    IF blend /\ ml_tip > 0
    THEN (tip * 6) \div 10 + (ml_tip * TipUnit * 4) \div 10
    ELSE tip

\* the try block raises KeyError
TipRaises(opp) ==
    \/ "expected_profit_usd" \notin DOMAIN opp
    \/ "strategy" \notin DOMAIN opp
    \/ opp.strategy = "sandwich_attack" /\ "data" \notin DOMAIN opp

\* the value calculate_optimal_tip returns, in tip units
optimal_tip(opp, min_gwei, max_gwei, blend, ml_tip) ==
    IF TipRaises(opp) THEN min_gwei * TipUnit
    ELSE LET rule == AfterProfitBands(opp.expected_profit_usd,
                         AfterSandwich(opp, min_gwei * TipUnit))
             blended == AfterBlend(rule, blend, ml_tip)
             clamped == Max(min_gwei * TipUnit, Min(blended, max_gwei * TipUnit))
         IN Min(clamped, max_acceptable_tip(opp.expected_profit_usd))

\* calculate_optimal_tip has not returned
NoTip == -1

\* self.max_history
max_history == 100
\* the history length above which the prediction is blended in
BlendAbove == 10
\* the model is retrained from this history length on, at every multiple of
\* RetrainEvery
RetrainFrom == 50
RetrainEvery == 20

\* self.model is not None and len(self.tip_history) > 10: the constructor
\* always sets self.model
ml_ready == tip_history_len > BlendAbove

TipInit ==
    /\ min_tip_gwei \in MinTips
    /\ max_tip_gwei \in MaxTips
    /\ opportunity \in TipOpps
    /\ tip_history_len = 0
    /\ ml_prediction \in MlTips
    /\ tipPc = "ready"
    /\ optimal_tip_wei = NoTip

\* the TipOptimizer of a run in which only another component is exercised
TipIdle ==
    /\ min_tip_gwei = 30
    /\ max_tip_gwei = 500
    /\ opportunity = [strategy |-> "direct_arbitrage"]
    /\ ml_prediction = 0
    /\ TipInit

calculate_optimal_tip ==
    /\ tipPc = "ready"
    /\ tipPc' = "done"
    /\ optimal_tip_wei' = optimal_tip(opportunity, min_tip_gwei, max_tip_gwei,
                                      ml_ready, ml_prediction)
    /\ UNCHANGED <<min_tip_gwei, max_tip_gwei, opportunity, tip_history_len,
                   ml_prediction>>
    /\ UNCHANGED notTip

\* record_tip_outcome(tip_gwei, success): the pair is appended and the oldest
\* entry dropped beyond max_history; only the length of the history is kept
\* here, since the pairs are read by nothing but the retraining.  When the
\* length is a retraining point, _retrain_model refits self.model without
\* suspending, and what _ml_predict_tip returns afterwards is whatever the
\* refitted model gives (0 when its predict raises).
record_tip_outcome ==
    /\ LET appended == tip_history_len + 1
           kept == IF appended > max_history THEN appended - 1 ELSE appended
       IN /\ tip_history_len' = kept
          /\ IF kept >= RetrainFrom /\ kept % RetrainEvery = 0
             THEN ml_prediction' \in MlTips
             ELSE UNCHANGED ml_prediction
    /\ UNCHANGED <<min_tip_gwei, max_tip_gwei, opportunity, tipPc, optimal_tip_wei>>
    /\ UNCHANGED notTip

TipNext ==
    \/ calculate_optimal_tip
    \/ record_tip_outcome

(***************************************************************************)
(* MempoolMonitor                                                          *)
(* The loop time of the candidate cache is counted in ticks of 20 seconds. *)
(* start(), the monitor loop and a call of reconnect() are one task each;  *)
(* the steps of a task are the stretches of code between two awaits.       *)
(***************************************************************************)
\* the transaction hashes the feed announces
Hashes == {"0xa", "0xb"}
\* the 60 seconds of get_pending_transactions, in ticks
MaxAge == 3
\* self.max_cache_size
max_cache_size == 1000
\* no entry under the hash
NoEntry == -1
\* no read of the cache is the last thing that happened
NoRead == [op |-> "none", returned |-> {}]

\* the hashes that have an entry in pending_txs
CachedHashes(txs) == {h \in Hashes : txs[h] # NoEntry}

\* min(pending_txs.keys(), key=timestamp): the keys of a dict come in the
\* order of their insertion and min keeps the first of the smallest
OldestHash(txs, order) ==
    LET i == CHOOSE i \in 1..Len(order) :
                 /\ \A j \in 1..Len(order) : txs[order[i]] <= txs[order[j]]
                 /\ \A j \in 1..(i - 1) : txs[order[j]] > txs[order[i]]
    IN order[i]

\* the order of the keys once hash h is deleted
Without(order, h) == SelectSeq(order, LAMBDA g : g # h)

\* a handler that leaves the feed marked connected
OnReceiveError_StayConnected(connected) == connected

\* `self.ws_connected = False` in the handler of the monitor loop
OnReceiveError(connected) == FALSE

\* the awaits of _connect_websocket a caller can be suspended in:
\* websockets.connect, and the ws.send and ws.recv of _subscribe_pending_txs
ConnectStages == {"open", "send", "recv"}

\* what get_websocket_url can return, a URL (TRUE) or None: a URL it has
\* returned is cached and returned ever after
Urls(cached) == IF cached THEN {TRUE} ELSE BOOLEAN

\* _connect_websocket up to its first await: without a WebSocket URL it
\* returns at once
BeginConnect(url) == IF url THEN "open" ELSE "returned"

\* _connect_websocket resumed in `stage` with the awaited call succeeding
\* (ok) or raising: the next stage, self.ws (set or None) and ws_connected.
\* _subscribe_pending_txs catches its own exceptions, so a failed
\* subscription leaves ws_connected as it is
_connect_websocket(stage, ok, socket, connected) ==
    CASE stage = "open" ->
            IF ok
            THEN [stage |-> "send", ws |-> TRUE, ws_connected |-> TRUE]
            ELSE [stage |-> "returned", ws |-> socket, ws_connected |-> FALSE]
      [] stage = "send" ->
            [stage |-> IF ok THEN "recv" ELSE "returned",
             ws |-> socket, ws_connected |-> connected]
      [] OTHER ->
            [stage |-> "returned", ws |-> socket, ws_connected |-> connected]

MempoolInit ==
    /\ pending_txs = [h \in Hashes |-> NoEntry]
    /\ tx_order = <<>>
    /\ mp_time = 0
    /\ mp_running = FALSE
    /\ ws = FALSE
    /\ ws_connected = FALSE
    /\ startPc = "none"
    /\ loopPc = "none"
    /\ rcPc = "idle"
    /\ tx_tasks = {}
    /\ slept = 0
    /\ awaiting_reconnect = FALSE
    /\ mpLast = NoRead
    /\ ws_url_cache = FALSE

\* the MempoolMonitor of a run in which only another component is exercised
MempoolIdle == MempoolInit

\* start() up to its first await: running is set and _connect_websocket is
\* entered; when that returns without suspending, the task of the monitor
\* loop is created
mp_start ==
    /\ startPc = "none"
    /\ mp_running' = TRUE
    /\ \E url \in Urls(ws_url_cache) :
          LET stage == BeginConnect(url)
          IN /\ startPc' = IF stage = "returned" THEN "done" ELSE stage
             /\ loopPc' = IF stage = "returned" THEN "top" ELSE loopPc
             /\ ws_url_cache' = url
    /\ mpLast' = NoRead
    /\ UNCHANGED <<pending_txs, tx_order, mp_time, ws, ws_connected, rcPc,
                   tx_tasks, slept, awaiting_reconnect>>
    /\ UNCHANGED notMempool

\* start() resumed inside _connect_websocket; once that returns,
\* asyncio.create_task(self._monitor_loop())
mp_start_resume ==
    /\ startPc \in ConnectStages
    /\ \E ok \in BOOLEAN :
          LET r == _connect_websocket(startPc, ok, ws, ws_connected)
          IN /\ ws' = r.ws
             /\ ws_connected' = r.ws_connected
             /\ startPc' = IF r.stage = "returned" THEN "done" ELSE r.stage
             /\ loopPc' = IF r.stage = "returned" THEN "top" ELSE loopPc
    /\ mpLast' = NoRead
    /\ UNCHANGED <<pending_txs, tx_order, mp_time, mp_running, rcPc, tx_tasks,
                   slept, awaiting_reconnect, ws_url_cache>>
    /\ UNCHANGED notMempool

\* stop(): running is cleared; the awaits that follow when a socket exists
\* (the unsubscribe message and ws.close) change nothing of the monitor
mp_stop ==
    /\ mp_running
    /\ mp_running' = FALSE
    /\ mpLast' = NoRead
    /\ UNCHANGED <<pending_txs, tx_order, mp_time, ws, ws_connected, startPc,
                   loopPc, rcPc, tx_tasks, slept, awaiting_reconnect,
                   ws_url_cache>>
    /\ UNCHANGED notMempool

\* reconnect() once its socket, if any, is closed: ws_connected is cleared
\* and _connect_websocket is entered
AfterClose ==
    /\ ws_connected' = FALSE
    /\ \E url \in Urls(ws_url_cache) :
          LET stage == BeginConnect(url)
          IN /\ rcPc' = IF stage = "returned" THEN "idle" ELSE stage
             /\ ws_url_cache' = url

\* reconnect() up to its first await: ws.close() when there is a socket
mp_reconnect ==
    /\ rcPc = "idle"
    /\ IF ws
       THEN /\ rcPc' = "closing"
            /\ UNCHANGED <<ws_connected, ws_url_cache>>
       ELSE AfterClose
    /\ mpLast' = NoRead
    /\ UNCHANGED <<pending_txs, tx_order, mp_time, mp_running, ws, startPc,
                   loopPc, tx_tasks, slept, awaiting_reconnect>>
    /\ UNCHANGED notMempool

\* reconnect() resumed: after ws.close(), or inside _connect_websocket
mp_reconnect_resume ==
    /\ rcPc \in ConnectStages \cup {"closing"}
    /\ IF rcPc = "closing"
       THEN /\ AfterClose
            /\ UNCHANGED ws
       ELSE \E ok \in BOOLEAN :
               LET r == _connect_websocket(rcPc, ok, ws, ws_connected)
               IN /\ ws' = r.ws
                  /\ ws_connected' = r.ws_connected
                  /\ rcPc' = IF r.stage = "returned" THEN "idle" ELSE r.stage
                  /\ UNCHANGED ws_url_cache
    /\ mpLast' = NoRead
    /\ UNCHANGED <<pending_txs, tx_order, mp_time, mp_running, startPc, loopPc,
                   tx_tasks, slept, awaiting_reconnect>>
    /\ UNCHANGED notMempool

\* `while self.running:` and `if not self.ws_connected:`
LoopTop ==
    /\ loopPc = "top"
    /\ loopPc' = IF ~mp_running THEN "exited"
                 ELSE IF ~ws_connected THEN "sleep5" ELSE "recv"
    /\ slept' = IF awaiting_reconnect THEN slept ELSE 0
    /\ mpLast' = NoRead
    /\ UNCHANGED <<pending_txs, tx_order, mp_time, mp_running, ws, ws_connected,
                   startPc, rcPc, tx_tasks, awaiting_reconnect, ws_url_cache>>
    /\ UNCHANGED notMempool

\* asyncio.sleep(5) is over and the reconnect attempt begins:
\* _connect_websocket() up to its first await, or `continue` when it returns
\* at once
Sleep5Done ==
    /\ loopPc = "sleep5"
    /\ \E url \in Urls(ws_url_cache) :
          LET stage == BeginConnect(url)
          IN /\ loopPc' = IF stage = "returned" THEN "top" ELSE stage
             /\ ws_url_cache' = url
    /\ slept' = slept + 5
    /\ awaiting_reconnect' = FALSE
    /\ mpLast' = NoRead
    /\ UNCHANGED <<pending_txs, tx_order, mp_time, mp_running, ws, ws_connected,
                   startPc, rcPc, tx_tasks>>
    /\ UNCHANGED notMempool

\* the reconnect attempt resumed inside _connect_websocket; once that
\* returns, `continue`
Reconnect ==
    /\ loopPc \in ConnectStages
    /\ \E ok \in BOOLEAN :
          LET r == _connect_websocket(loopPc, ok, ws, ws_connected)
          IN /\ ws' = r.ws
             /\ ws_connected' = r.ws_connected
             /\ loopPc' = IF r.stage = "returned" THEN "top" ELSE r.stage
    /\ mpLast' = NoRead
    /\ UNCHANGED <<pending_txs, tx_order, mp_time, mp_running, startPc, rcPc,
                   tx_tasks, slept, awaiting_reconnect, ws_url_cache>>
    /\ UNCHANGED notMempool

\* wait_for(self.ws.recv(), timeout=1.0) is over: a notification with a
\* hash, another message, the timeout, or an error
Receive ==
    /\ loopPc = "recv"
    /\ \/ \E h \in Hashes :
             /\ tx_tasks' = tx_tasks \cup {h}
             /\ loopPc' = "top"
             /\ UNCHANGED <<ws_connected, slept, awaiting_reconnect>>
       \/ /\ loopPc' = "top"
          /\ UNCHANGED <<tx_tasks, ws_connected, slept, awaiting_reconnect>>
       \/ /\ ws_connected' = OnReceiveError(ws_connected)
          /\ loopPc' = "sleep1"
          /\ slept' = 0
          /\ awaiting_reconnect' = TRUE
          /\ UNCHANGED tx_tasks
    /\ mpLast' = NoRead
    /\ UNCHANGED <<pending_txs, tx_order, mp_time, mp_running, ws, startPc, rcPc,
                   ws_url_cache>>
    /\ UNCHANGED notMempool

\* asyncio.sleep(1) of the handler is over
Sleep1Done ==
    /\ loopPc = "sleep1"
    /\ loopPc' = "top"
    /\ slept' = slept + 1
    /\ mpLast' = NoRead
    /\ UNCHANGED <<pending_txs, tx_order, mp_time, mp_running, ws, ws_connected,
                   startPc, rcPc, tx_tasks, awaiting_reconnect, ws_url_cache>>
    /\ UNCHANGED notMempool

\* the cache once hash h is stored at loop time `now`: assigning to a key
\* that is present keeps its place in the dict; beyond max_cache_size the
\* oldest entry is deleted
Stored(txs, order, h, now) ==
    LET added == [txs EXCEPT ![h] = now]
        keys == IF txs[h] = NoEntry THEN Append(order, h) ELSE order
    IN IF Len(keys) > max_cache_size
       THEN [txs |-> [added EXCEPT ![OldestHash(added, keys)] = NoEntry],
             order |-> Without(keys, OldestHash(added, keys))]
       ELSE [txs |-> added, order |-> keys]

\* the task created for a hash: the transaction is dropped (not found, small,
\* not a swap, error) or cached with the loop time
_process_pending_tx(h) ==
    /\ h \in tx_tasks
    /\ tx_tasks' = tx_tasks \ {h}
    /\ \E keep \in BOOLEAN :
          IF keep
          THEN /\ pending_txs' = Stored(pending_txs, tx_order, h, mp_time).txs
               /\ tx_order' = Stored(pending_txs, tx_order, h, mp_time).order
          ELSE UNCHANGED <<pending_txs, tx_order>>
    /\ mpLast' = NoRead
    /\ UNCHANGED <<mp_time, mp_running, ws, ws_connected, startPc, loopPc, rcPc,
                   slept, awaiting_reconnect, ws_url_cache>>
    /\ UNCHANGED notMempool

\* the entries get_pending_transactions deletes at loop time `now`
Expired60(txs, now) ==
    {h \in Hashes : txs[h] # NoEntry /\ now - txs[h] > MaxAge}

\* the cache after get_pending_transactions, which returns a copy of it:
\* the entries older than 60 seconds are deleted first
Evicted(txs, order, now) ==
    [txs |-> [h \in Hashes |->
                 IF h \in Expired60(txs, now) THEN NoEntry ELSE txs[h]],
     order |-> SelectSeq(order, LAMBDA h : h \notin Expired60(txs, now))]

get_pending_transactions ==
    /\ pending_txs' = Evicted(pending_txs, tx_order, mp_time).txs
    /\ tx_order' = Evicted(pending_txs, tx_order, mp_time).order
    /\ mpLast' = [op |-> "get_pending_transactions",
                  returned |-> CachedHashes(pending_txs')]
    /\ UNCHANGED <<mp_time, mp_running, ws, ws_connected, startPc, loopPc, rcPc,
                   tx_tasks, slept, awaiting_reconnect, ws_url_cache>>
    /\ UNCHANGED notMempool

get_transaction(tx_hash) ==
    /\ mpLast' = [op |-> "get_transaction",
                  returned |-> CachedHashes(pending_txs) \cap {tx_hash}]
    /\ UNCHANGED <<pending_txs, tx_order, mp_time, mp_running, ws, ws_connected,
                   startPc, loopPc, rcPc, tx_tasks, slept, awaiting_reconnect,
                   ws_url_cache>>
    /\ UNCHANGED notMempool

\* the loop time advances
MempoolTick ==
    /\ mp_time < MaxMempoolTime
    /\ mp_time' = mp_time + 1
    /\ mpLast' = NoRead
    /\ UNCHANGED <<pending_txs, tx_order, mp_running, ws, ws_connected, startPc,
                   loopPc, rcPc, tx_tasks, slept, awaiting_reconnect,
                   ws_url_cache>>
    /\ UNCHANGED notMempool

\* the steps of the monitor loop
MonitorLoopStep ==
    \/ LoopTop
    \/ Sleep5Done
    \/ Reconnect
    \/ Receive
    \/ Sleep1Done

\* the tasks of the feed, without the reads of the cache and the time they
\* depend on
MempoolTasksNext ==
    \/ mp_start
    \/ mp_start_resume
    \/ mp_stop
    \/ mp_reconnect
    \/ mp_reconnect_resume
    \/ LoopTop
    \/ Sleep5Done
    \/ Reconnect
    \/ Receive
    \/ Sleep1Done
    \/ \E h \in Hashes : _process_pending_tx(h)

MempoolNext ==
    \/ mp_start
    \/ mp_start_resume
    \/ mp_stop
    \/ mp_reconnect
    \/ mp_reconnect_resume
    \/ LoopTop
    \/ Sleep5Done
    \/ Reconnect
    \/ Receive
    \/ Sleep1Done
    \/ \E h \in Hashes : _process_pending_tx(h)
    \/ get_pending_transactions
    \/ \E h \in Hashes : get_transaction(h)
    \/ MempoolTick

(***************************************************************************)
(* MEVBotEngine                                                            *)
(* main_loop is one task.  None of the coroutines it awaits in a cycle     *)
(* (strategy polling, pricing, building, simulation, sending) suspends:    *)
(* they call web3 synchronously.  The task yields to the event loop only   *)
(* in the asyncio.sleep calls of main_loop and of _wait_for_confirmation,  *)
(* so a cycle is one step up to its next sleep, and the other tasks (the   *)
(* kill switch operations of an operator) run between two such steps.      *)
(* The time of a confirmation wait is counted in ticks of 20 seconds, ten  *)
(* sleeps of 2 seconds with the polls between them.                        *)
(***************************************************************************)
\* the simulation raised nothing
NoError == "no error"
\* the texts of the exceptions w3.eth.call raises
SimErrors == {"execution reverted: K", "Insufficient funds for gas", "VM REVERT",
              "nonce too low", "Read timed out"}

\* str(e).lower()
lower(text) ==
    CASE text = "execution reverted: K" -> "execution reverted: k"
      [] text = "Insufficient funds for gas" -> "insufficient funds for gas"
      [] text = "VM REVERT" -> "vm revert"
      [] text = "Read timed out" -> "read timed out"
      [] text = "nonce too low" -> "nonce too low"
      [] OTHER -> text

\* `sub in text`, for the three substrings simulate_transaction looks for
Contains(sub, text) ==
    CASE sub = "revert" -> text \in {"execution reverted: k", "vm revert"}
      [] sub = "insufficient" -> text = "insufficient funds for gas"
      [] sub = "execution reverted" -> text = "execution reverted: k"
      [] OTHER -> FALSE

\* a simulator that lets a transaction through when funds are insufficient
simulate_transaction_AllowInsufficient(error) ==
    IF error = NoError THEN TRUE
    ELSE IF Contains("revert", lower(error)) THEN FALSE
    ELSE TRUE

\* what simulate_transaction returns when w3.eth.call raises `error`
simulate_transaction(error) ==
    IF error = NoError THEN TRUE
    ELSE IF Contains("revert", lower(error)) THEN FALSE
    ELSE IF Contains("insufficient", lower(error)) THEN FALSE
    ELSE IF Contains("execution reverted", lower(error)) THEN FALSE
    ELSE TRUE

\* a main loop that never looks at the kill switch
KillSwitchActivated_Never == FALSE

\* `if self.kill_switch.is_triggered():` at the top of a cycle
KillSwitchActivated == triggered

\* _wait_for_confirmation(tx_hash, timeout=60), in ticks
ConfirmTimeout == 3

\* what get_transaction_receipt does in one poll: a receipt of a successful
\* transaction whose gasUsed * effectiveGasPrice is positive, one whose gas
\* cost is 0, a receipt of a reverted transaction, TransactionNotFound or
\* another exception
Receipts == {"status 1", "status 1, gas cost 0", "status 0",
             "TransactionNotFound", "error"}

\* the parameters of WalletManager.auto_withdraw_profits that have no default
AutoWithdrawParams == 3

\* calling auto_withdraw_profits with nargs arguments
auto_withdraw_profits(nargs) ==
    IF nargs < AutoWithdrawParams THEN "TypeError" ELSE "attempted"

\* the strategy producers the engine constructs and hands to the
\* StrategyManager, and the sandwich producer
StrategyProducers ==
    {"sandwich_attack", "liquidation_arbitrage", "direct_arbitrage",
     "triangular_arbitrage", "flashloan_arbitrage"}

\* the producers main_loop has a _check_ method for: nothing in the engine
\* calls flashloan_arb.find_opportunities
CheckedProducers ==
    {"sandwich_attack", "liquidation_arbitrage", "direct_arbitrage",
     "triangular_arbitrage"}

\* config['strategies'][s]['enabled'], as the set of the enabled strategies
EnabledSets == {StrategyProducers, {"direct_arbitrage"}, {}}

\* how many times a cycle that polls queries producer s: each _check_ method
\* returns None at once for a disabled strategy and is awaited once
Queries(s, enabled) ==
    IF s \in CheckedProducers /\ s \in enabled THEN 1 ELSE 0

\* what polling and selecting can give: an opportunity comes from a _check_
\* method whose strategy is enabled
Polls(enabled) ==
    IF enabled \cap CheckedProducers = {}
    THEN {"raise", "none"}
    ELSE {"raise", "none", "known strategy", "unknown strategy"}

\* what a cycle meets with the strategies `enabled`: the result of polling
\* and selecting, the type of the expected profit, the health of the
\* endpoint, the result of building, the exception of the simulation, what
\* the signer does with the transaction, what the node does with it, and
\* the first poll for the receipt
CycleInputs(enabled) ==
    [enabled : {enabled},
     poll : Polls(enabled),
     profit_type : {"int", "float"},
     healthy : BOOLEAN,
     build : {"tx", "empty", "raise"},
     sim_error : SimErrors \cup {NoError},
     sign_ok : BOOLEAN,
     send_ok : BOOLEAN,
     receipt : Receipts]

\* `nonce = self.nonce_manager.get_nonce()` in _send_transaction: get_nonce is
\* a coroutine function and the call is not awaited, so the value put into
\* tx['nonce'] is the coroutine object; the body of get_nonce never runs and
\* the ledger of the NonceManager is not touched
SendNonce == "coroutine"

\* nothing of a cycle has run; `nonce` is what the send step put into
\* tx['nonce']; `recovery` is the nonce recovery (speed-up or
\* cancel) the engine asked the NonceManager for: no statement of the engine
\* calls speed_up_transaction, cancel_transaction or reset_nonce
NoCycle ==
    [tick |-> 0, polled |-> FALSE, enabled |-> {},
     queried |-> [s \in StrategyProducers |-> 0],
     executed |-> FALSE, build |-> "none",
     sim_error |-> NoError, simulated |-> FALSE, sent |-> FALSE,
     submitted |-> FALSE, profit_type |-> "int", failure_recorded |-> FALSE,
     recovery |-> "none", nonce |-> "none", outcome |-> "none"]

\* the end of _execute_opportunity once the wait for the receipt is over:
\* receipt is a receipt, "none" after the timeout, or "error"
AfterConfirmation(receipt, profit_type) ==
    CASE receipt = "status 1" ->
            \* from_wei of a positive cost is a Decimal: with a float
            \* expected profit `expected_profit_usd - gas_cost_usd` raises
            \* TypeError in _calculate_actual_profit; with an int one the
            \* profit is a Decimal and `stats['total_profit_usd'] += profit`
            \* raises it, the statistic being the float 0.0
            [outcome |-> "exception", failure_recorded |-> TRUE]
      [] receipt = "status 1, gas cost 0" ->
            \* from_wei(0) is the int 0: the profit is the expected profit
            [outcome |-> "success", failure_recorded |-> FALSE]
      [] receipt = "status 0" -> [outcome |-> "reverted", failure_recorded |-> FALSE]
      [] receipt = "none" -> [outcome |-> "no receipt", failure_recorded |-> FALSE]
      [] OTHER -> [outcome |-> "exception", failure_recorded |-> TRUE]

\* the cycle once the four _check_ methods have been awaited
Polled(in) ==
    [NoCycle EXCEPT !.polled = TRUE, !.enabled = in.enabled,
                    !.queried = [s \in StrategyProducers |-> Queries(s, in.enabled)]]

\* _send_transaction: the nonce put into the transaction is the coroutine
\* object of the get_nonce call that is not awaited; the result is the hash
\* or None
_send_transaction(in, mev_boost) ==
    IF ~in.sign_ok THEN "none"
    ELSE IF mev_boost THEN "none"
    ELSE IF ~in.send_ok THEN "none"
    ELSE "hash"

\* _execute_opportunity up to its first sleep, after the daily loss check
\* gave loss_limit_hit, with config['mev_boost']['enabled'] = mev_boost
_execute_opportunity(in, loss_limit_hit, mev_boost) ==
    LET base == [Polled(in) EXCEPT !.executed = TRUE,
                                   !.profit_type = in.profit_type]
    IN IF loss_limit_hit \/ ~in.healthy
       THEN [base EXCEPT !.outcome = "pre-checks failed"]
       ELSE IF in.poll = "unknown strategy"
       THEN [base EXCEPT !.outcome = "unknown strategy"]
       ELSE IF in.build = "raise"
       THEN [base EXCEPT !.build = "raise", !.outcome = "exception",
                         !.failure_recorded = TRUE]
       ELSE LET built == [base EXCEPT !.build = in.build, !.simulated = TRUE,
                                      !.sim_error = in.sim_error]
            IN IF ~simulate_transaction(in.sim_error)
               THEN [built EXCEPT !.outcome = "simulation rejected"]
               ELSE IF _send_transaction(in, mev_boost) = "none"
               THEN [built EXCEPT !.sent = TRUE, !.nonce = SendNonce,
                                  !.outcome = "send failed"]
               ELSE LET sent == [built EXCEPT !.sent = TRUE, !.nonce = SendNonce,
                                              !.submitted = TRUE]
                    IN IF in.receipt = "TransactionNotFound"
                       THEN [sent EXCEPT !.outcome = "confirming"]
                       ELSE LET end == AfterConfirmation(in.receipt, in.profit_type)
                            IN [sent EXCEPT !.outcome = end.outcome,
                                     !.failure_recorded = end.failure_recorded]

\* one iteration of the body of main_loop, without the kill switch test
Iteration(in, loss_limit_hit, is_paused, mev_boost) ==
    IF is_paused THEN [NoCycle EXCEPT !.outcome = "paused"]
    ELSE IF in.poll = "raise"
    THEN [Polled(in) EXCEPT !.outcome = "error in main loop"]
    ELSE IF in.poll = "none"
    THEN [Polled(in) EXCEPT !.outcome = "no opportunity"]
    ELSE _execute_opportunity(in, loss_limit_hit, mev_boost)

\* what a cycle can do, over everything it can meet
CycleOutcomes ==
    [enabled \in EnabledSets, loss_limit_hit \in BOOLEAN, is_paused \in BOOLEAN,
     mev_boost \in BOOLEAN |->
        {Iteration(in, loss_limit_hit, is_paused, mev_boost) :
            in \in CycleInputs(enabled)}]

\* the outcomes of a cycle in which an exception was caught, by
\* _execute_opportunity or by main_loop
ErrorOutcomes == {"exception", "error in main loop"}

\* a main loop that returns when a cycle raised
AfterCycle_ReturnOnError(outcome) ==
    IF outcome = "confirming" THEN "confirming"
    ELSE IF outcome \in ErrorOutcomes THEN "exited"
    ELSE "top"

\* where main_loop is after a cycle: in the sleep of the confirmation wait, or
\* back at its `while` after the sleep that ends the iteration (0.1 s, or 1 s
\* in the handler of an exception)
AfterCycle(outcome) ==
    IF outcome = "confirming" THEN "confirming" ELSE "top"

\* nothing of emergency_shutdown has run
NoShutdown == [reached |-> FALSE, withdrawal |-> "none", alert_sent |-> FALSE]

\* the record of emergency_shutdown once it is entered
Entered(sd) == [sd EXCEPT !.reached = TRUE]

\* the record of emergency_shutdown once the monitors are stopped: the call
\* of auto_withdraw_profits without arguments, and the alert if the call
\* returned
Withdrawn(sd) ==
    LET withdrawal == auto_withdraw_profits(0)
    IN [reached |-> TRUE, withdrawal |-> withdrawal,
        alert_sent |-> withdrawal # "TypeError"]

\* the keys of the price calls of _check_direct_arbitrage in the order of the
\* calls, price_<dex>_<token0>_<token1>: here every key of the table
PriceKeys == <<"a", "b">>
\* ttl=30 of the cached prices, in ticks of 30 seconds
PriceTtl == 1

\* `if cached:`
Truthy(value) ==
    CASE value.t = "none" -> FALSE
      [] value.t \in {"int", "float"} -> value.v # <<0>>
      [] OTHER -> Len(value.v) > 0

\* what self.cache.get(key) returns at time `now`
CacheGet(tbl, connected, key, now) ==
    IF ~connected \/ tbl[key] = NoRow THEN PyNone
    ELSE IF Expired(now - tbl[key].timestamp, tbl[key].ttl) THEN PyNone
    ELSE json_loads(tbl[key].value)

\* the price calls that find no price in the cache and store the placeholder
Fetched(tbl, connected, now) ==
    {k \in CacheKeys :
        /\ \E i \in 1..Len(PriceKeys) : PriceKeys[i] = k
        /\ ~Truthy(CacheGet(tbl, connected, k, now))}

\* the table after _fetch_prices_multicall: a price that is missing or
\* expired (get deletes an expired row) is stored again with ttl=30; without
\* a connection get and set log their exception
_fetch_prices_multicall(tbl, connected, now) ==
    [k \in CacheKeys |->
        IF connected /\ k \in Fetched(tbl, connected, now)
        THEN [value |-> json_dumps(PyFloat), timestamp |-> now, ttl |-> PriceTtl]
        ELSE tbl[k]]

\* the last call _fetch_prices_multicall made to the cache
LastPriceCall(tbl, connected, now) ==
    LET key == PriceKeys[Len(PriceKeys)]
    IN IF key \in Fetched(tbl, connected, now)
       THEN [op |-> "set", key |-> key, result |-> PyNone]
       ELSE [op |-> "get", key |-> key,
             result |-> CacheGet(tbl, connected, key, now)]

EngineInit ==
    /\ running = FALSE
    /\ paused = FALSE
    /\ mev_boost_enabled \in BOOLEAN
    /\ strategies \in EnabledSets
    /\ enginePc = "none"
    /\ stopPc = "none"
    /\ cycle = NoCycle
    /\ waited = 0
    /\ shutdown = NoShutdown

\* the MEVBotEngine of a run in which only another component is exercised
EngineIdle ==
    /\ mev_boost_enabled = FALSE
    /\ strategies = {}
    /\ EngineInit

\* the kill switch after the calls the engine made in a step: is_triggered
\* only (checked = FALSE), or check_daily_loss and, if failed,
\* record_failed_transaction
EngineKillCalls(checked, failed) ==
    LET r == _reset_daily_counters
        count == r.failed_tx_count + 1
    IN /\ failed => count <= MaxFailures
       /\ Counters(IF failed THEN [r EXCEPT !.failed_tx_count = count]
                   ELSE IF checked THEN r
                   ELSE [daily_loss |-> daily_loss,
                         failed_tx_count |-> failed_tx_count,
                         last_reset_day |-> last_reset_day])
       /\ KillDone(IF failed THEN "record_failed_transaction"
                   ELSE IF checked THEN "check_daily_loss" ELSE "is_triggered",
                   [Ignored EXCEPT !.alert =
                       IF failed /\ count >= max_failed_tx /\ alert_system
                       THEN "high" ELSE "none"])
       /\ UNCHANGED <<KillConfig, clock, trigger_tasks>>

\* start(): the tasks of the monitors are created and main_loop is entered;
\* the first iteration follows without a suspension
engine_start ==
    /\ enginePc = "none"
    /\ running' = TRUE
    /\ enginePc' = "entered"
    /\ UNCHANGED <<paused, mev_boost_enabled, strategies, stopPc, cycle, waited, shutdown>>
    /\ UNCHANGED notEngine

\* the task engine.start() created for mempool_monitor.start() runs once
\* main_loop is suspended; when main_loop has returned, asyncio.run cancels
\* the tasks that are left
mempool_start_task ==
    /\ enginePc \notin {"none", "entered", "exited"}
    /\ mp_start

\* that task resumed
mempool_start_task_resume ==
    /\ enginePc # "exited"
    /\ mp_start_resume

\* `while self.running:` is false: main_loop returns
main_loop_exit ==
    /\ enginePc = "top"
    /\ ~running
    /\ enginePc' = "exited"
    /\ UNCHANGED <<running, paused, mev_boost_enabled, strategies, stopPc, cycle, waited,
                   shutdown>>
    /\ UNCHANGED notEngine

\* emergency_shutdown up to `await self.mempool_monitor.stop()`, which clears
\* the monitor's running and suspends in ws.close() when the monitor has a
\* socket
ShutdownEntered ==
    /\ running' = FALSE
    /\ paused' = TRUE
    /\ mp_running' = FALSE
    /\ mpLast' = NoRead
    /\ UNCHANGED <<pending_txs, tx_order, mp_time, ws, ws_connected, startPc,
                   loopPc, rcPc, tx_tasks, slept, awaiting_reconnect,
                   ws_url_cache>>
    /\ UNCHANGED <<nonceVars, selectVars, rpcVars, cacheVars, multicallVars, tipVars,
                   killCallVars, speedUpVars>>

\* emergency_shutdown, entered from main_loop whose test of the kill switch
\* was true: without a socket to close the monitors are stopped at once, the
\* call of auto_withdraw_profits without arguments raises, the handler of
\* main_loop logs the error and sleeps
emergency_shutdown ==
    /\ enginePc \in {"entered", "top"}
    /\ running
    /\ KillSwitchActivated
    /\ ShutdownEntered
    /\ IF ws
       THEN /\ enginePc' = "closing"
            /\ shutdown' = Entered(shutdown)
            /\ UNCHANGED cycle
       ELSE /\ enginePc' = "top"
            /\ shutdown' = Withdrawn(shutdown)
            /\ cycle' = [NoCycle EXCEPT !.tick = 1 - cycle.tick,
                                        !.outcome = "error in main loop"]
    /\ EngineKillCalls(FALSE, FALSE)
    /\ UNCHANGED <<mev_boost_enabled, strategies, stopPc, waited>>

\* emergency_shutdown of main_loop resumed after the socket is closed: the
\* other monitors are stopped, the withdrawal raises, the handler of
\* main_loop logs the error and sleeps
emergency_shutdown_resume ==
    /\ enginePc = "closing"
    /\ enginePc' = "top"
    /\ shutdown' = Withdrawn(shutdown)
    /\ cycle' = [NoCycle EXCEPT !.tick = 1 - cycle.tick,
                                !.outcome = "error in main loop"]
    /\ UNCHANGED <<running, paused, mev_boost_enabled, strategies, stopPc, waited>>
    /\ UNCHANGED notEngine

\* MEVBotRunner.stop(), the task of the signal handler, run while main_loop
\* is suspended: it calls emergency_shutdown whatever the kill switch says,
\* and the TypeError of the withdrawal ends the task
runner_stop ==
    /\ stopPc = "none"
    /\ enginePc \in {"top", "confirming", "closing"}
    /\ ShutdownEntered
    /\ IF ws
       THEN /\ stopPc' = "closing"
            /\ shutdown' = Entered(shutdown)
       ELSE /\ stopPc' = "raised"
            /\ shutdown' = Withdrawn(shutdown)
    /\ UNCHANGED <<mev_boost_enabled, strategies, enginePc, cycle, waited>>
    /\ UNCHANGED killVars

\* emergency_shutdown of MEVBotRunner.stop() resumed after the socket is
\* closed; a stop task still suspended when main_loop returns is cancelled
runner_stop_resume ==
    /\ stopPc = "closing"
    /\ enginePc # "exited"
    /\ stopPc' = "raised"
    /\ shutdown' = Withdrawn(shutdown)
    /\ UNCHANGED <<running, paused, mev_boost_enabled, strategies, enginePc, cycle, waited>>
    /\ UNCHANGED notEngine

\* one cycle of main_loop up to its next sleep: a cycle that is not paused
\* awaits the four _check_ methods, of which the sandwich check reads the
\* candidate cache and the direct arbitrage check fetches the prices
main_loop_cycle ==
    /\ enginePc \in {"entered", "top"}
    /\ running
    /\ ~KillSwitchActivated
    /\ \E c \in CycleOutcomes[strategies,
                              _reset_daily_counters.daily_loss >= max_daily_loss_usd,
                              paused, mev_boost_enabled] :
          /\ cycle' = [c EXCEPT !.tick = 1 - cycle.tick]
          /\ EngineKillCalls(c.executed, c.failure_recorded)
          /\ enginePc' = AfterCycle(c.outcome)
          /\ waited' = IF c.outcome = "confirming" THEN 1 ELSE 0
          /\ IF c.queried["sandwich_attack"] > 0
             THEN /\ pending_txs' = Evicted(pending_txs, tx_order, mp_time).txs
                  /\ tx_order' = Evicted(pending_txs, tx_order, mp_time).order
                  /\ mpLast' = [op |-> "get_pending_transactions",
                                returned |-> CachedHashes(pending_txs')]
             ELSE UNCHANGED <<pending_txs, tx_order, mpLast>>
          /\ IF c.queried["direct_arbitrage"] > 0
             THEN /\ cache' = _fetch_prices_multicall(cache, conn, cache_time)
                  /\ setValue' = [k \in CacheKeys |->
                                     IF conn /\ k \in Fetched(cache, conn, cache_time)
                                     THEN PyFloat ELSE setValue[k]]
                  /\ cacheLast' = LastPriceCall(cache, conn, cache_time)
             ELSE UNCHANGED <<cache, setValue, cacheLast>>
    /\ UNCHANGED <<running, paused, mev_boost_enabled, strategies, stopPc, shutdown>>
    /\ UNCHANGED <<mp_time, mp_running, ws, ws_connected, startPc, loopPc, rcPc,
                   tx_tasks, slept, awaiting_reconnect, ws_url_cache>>
    /\ UNCHANGED <<conn, cache_time>>
    /\ UNCHANGED notEngineCycle

\* _wait_for_confirmation after a tick of sleeps: the time is over, or the
\* receipt is asked for again; the end of the execution and of the cycle
\* follows
confirmation_poll ==
    /\ enginePc = "confirming"
    /\ \E answer \in Receipts :
          LET receipt == IF waited >= ConfirmTimeout THEN "none" ELSE answer
          IN IF receipt = "TransactionNotFound"
             THEN /\ waited' = waited + 1
                  /\ UNCHANGED <<enginePc, cycle>>
                  /\ UNCHANGED killVars
             ELSE LET end == AfterConfirmation(receipt, cycle.profit_type)
                  IN /\ cycle' = [cycle EXCEPT !.outcome = end.outcome,
                                       !.failure_recorded = end.failure_recorded]
                     /\ enginePc' = AfterCycle(end.outcome)
                     /\ waited' = 0
                     /\ IF end.failure_recorded
                        THEN EngineKillCalls(TRUE, TRUE)
                        ELSE UNCHANGED killVars
    /\ UNCHANGED <<running, paused, mev_boost_enabled, strategies, stopPc, shutdown>>
    /\ UNCHANGED notEngineAndKill

\* the engine and the kill switch operations other tasks run between its steps
EngineNext ==
    \/ engine_start
    \/ main_loop_exit
    \/ emergency_shutdown
    \/ main_loop_cycle
    \/ confirmation_poll
    \/ runner_stop
    \/ record_loss(LargestLoss)
    \/ manual_trigger
    \/ run_trigger_task
    \/ reset

\* the engine, the runner's stop, the task of the feed's start() and the
\* operator's kill switch operations
ShutdownNext ==
    \/ engine_start
    \/ main_loop_exit
    \/ emergency_shutdown
    \/ emergency_shutdown_resume
    \/ main_loop_cycle
    \/ runner_stop
    \/ runner_stop_resume
    \/ mempool_start_task
    \/ mempool_start_task_resume
    \/ manual_trigger
    \/ run_trigger_task
    \/ reset

(***************************************************************************)
(* KillSwitch under concurrent callers                                     *)
(* Several tasks call record_loss, record_failed_transaction, trigger and  *)
(* reset on the same KillSwitch.  A call reads and writes the counters and *)
(* the tripped state without yielding; the only await of record_loss and   *)
(* trigger is the send of the alert, their last statement.  The steps      *)
(* below are these calls in any order, together with a ledger of what the  *)
(* callers asked for.                                                      *)
(***************************************************************************)
\* nothing was recorded yet
NoRecords == [day |-> 0, losses |-> 0, failures |-> 0]

\* the ledger on the day of the clock: a new day starts an empty page
Page == IF recorded.day = _get_current_day THEN recorded
        ELSE [day |-> _get_current_day, losses |-> 0, failures |-> 0]

KillCallsInit ==
    /\ recorded = NoRecords
    /\ trip_attempts = 0
    /\ notifications = 0

\* the ledger of a run in which only another component is exercised
KillCallsIdle == KillCallsInit

\* trigger(reason) was called: one more attempt, and one more notification
\* if it sends the critical alert
Attempt(t) ==
    /\ trip_attempts < MaxAttempts
    /\ trip_attempts' = trip_attempts + 1
    /\ notifications' = notifications + (IF t.alert = "critical" THEN 1 ELSE 0)

\* a task calls record_loss(loss_usd)
concurrent_record_loss(loss_usd) ==
    LET r == _reset_daily_counters
        total == r.daily_loss + Abs(loss_usd)
        t == trigger([kind |-> "loss", amount |-> total])
    IN /\ total <= MaxLoss
       /\ Counters([r EXCEPT !.daily_loss = total])
       /\ recorded' = [Page EXCEPT !.losses = @ + Abs(loss_usd)]
       /\ IF total >= max_daily_loss_usd
          THEN KillDone("record_loss", t) /\ Attempt(t)
          ELSE KillDone("record_loss", Ignored)
               /\ UNCHANGED <<trip_attempts, notifications>>
       /\ UNCHANGED <<KillConfig, clock, trigger_tasks>>
       /\ UNCHANGED notKillAndCalls

\* a task calls record_failed_transaction()
concurrent_record_failed_transaction ==
    LET r == _reset_daily_counters
        count == r.failed_tx_count + 1
    IN /\ count <= MaxFailures
       /\ Counters([r EXCEPT !.failed_tx_count = count])
       /\ recorded' = [Page EXCEPT !.failures = @ + 1]
       /\ KillDone("record_failed_transaction",
                   [Ignored EXCEPT !.alert =
                       IF count >= max_failed_tx /\ alert_system
                       THEN "high" ELSE "none"])
       /\ UNCHANGED <<KillConfig, clock, trigger_tasks, trip_attempts, notifications>>
       /\ UNCHANGED notKillAndCalls

\* a task calls trigger(reason)
concurrent_trigger ==
    LET t == trigger([kind |-> "direct", amount |-> 0])
    IN /\ KillDone("trigger", t)
       /\ Attempt(t)
       /\ UNCHANGED <<KillConfig, clock, daily_loss, failed_tx_count,
                      last_reset_day, trigger_tasks, recorded>>
       /\ UNCHANGED notKillAndCalls

\* a task calls reset(); attempts and notifications are counted from here
concurrent_reset ==
    /\ KillDone("reset", [triggered |-> FALSE, trigger_reason |-> NoReason,
                          trigger_time |-> NoTime, alert |-> "none"])
    /\ trip_attempts' = 0
    /\ notifications' = 0
    /\ UNCHANGED <<KillConfig, clock, daily_loss, failed_tx_count, last_reset_day,
                   trigger_tasks, recorded>>
    /\ UNCHANGED notKillAndCalls

\* time.time() advances between two calls
KillCallsTick ==
    /\ clock < MaxClock
    /\ clock' = clock + 1
    /\ UNCHANGED <<KillConfig, triggered, trigger_reason, trigger_time, daily_loss,
                   failed_tx_count, last_reset_day, trigger_tasks, ksLast>>
    /\ UNCHANGED <<recorded, trip_attempts, notifications>>
    /\ UNCHANGED notKillAndCalls

KillCallsNext ==
    \/ \E l \in Losses : concurrent_record_loss(l)
    \/ concurrent_record_failed_transaction
    \/ concurrent_trigger
    \/ concurrent_reset
    \/ KillCallsTick

(***************************************************************************)
(* NonceManager.speed_up_transaction                                       *)
(* A transaction is the record of its nonce and of its three fee fields,   *)
(* in wei; a field the dict does not have is NoFee.                        *)
(***************************************************************************)
\* the key is not in the dict
NoFee == 0
Fees == 1..MaxFee

\* the transactions speed_up_transaction is given
SpeedUpTxs ==
    [nonce : Nonces,
     gasPrice : {NoFee} \cup Fees,
     maxFeePerGas : {NoFee} \cup Fees,
     maxPriorityFeePerGas : {NoFee} \cup Fees]

\* nothing returned yet
NoTx == [nonce |-> NoNonce, gasPrice |-> NoFee, maxFeePerGas |-> NoFee,
         maxPriorityFeePerGas |-> NoFee]

\* int(fee * gas_price_multiplier) with the default multiplier 1.125: the
\* product is exact in floating point (1.125 = 9/8) and int() drops its
\* fraction
BumpFee(fee) == (fee * 1125) \div 1000

\* `if key in new_tx: new_tx[key] = int(new_tx[key] * gas_price_multiplier)`
BumpField(fee) == IF fee = NoFee THEN NoFee ELSE BumpFee(fee)

\* the dict speed_up_transaction returns for tx: a copy with its fees bumped
SpeedUpTx(tx) ==
    [nonce |-> tx.nonce,
     gasPrice |-> BumpField(tx.gasPrice),
     maxFeePerGas |-> BumpField(tx.maxFeePerGas),
     maxPriorityFeePerGas |-> BumpField(tx.maxPriorityFeePerGas)]

SpeedUpInit ==
    /\ original_tx \in SpeedUpTxs
    /\ new_tx = NoTx
    /\ suPc = "ready"

\* the inputs of a run in which only another component is exercised
SpeedUpIdle ==
    /\ original_tx = [nonce |-> 0, gasPrice |-> 1, maxFeePerGas |-> NoFee,
                      maxPriorityFeePerGas |-> NoFee]
    /\ SpeedUpInit

\* speed_up_transaction(original_tx): works on a copy, reads nothing of self
speed_up ==
    /\ suPc = "ready"
    /\ new_tx' = SpeedUpTx(original_tx)
    /\ suPc' = "done"
    /\ UNCHANGED original_tx
    /\ UNCHANGED notSpeedUp

SpeedUpNext == speed_up

(***************************************************************************)
(* Specifications, one per component                                       *)
(***************************************************************************)
InitNonce ==
    /\ NonceInit
    /\ SelectIdle
    /\ RpcIdle
    /\ KillIdle
    /\ CacheIdle
    /\ MulticallIdle
    /\ TipIdle
    /\ MempoolIdle
    /\ EngineIdle
    /\ KillCallsIdle
    /\ SpeedUpIdle
SpecNonce == InitNonce /\ [][NonceNext]_vars

InitRpc ==
    /\ RpcInit
    /\ NonceIdle
    /\ SelectIdle
    /\ KillIdle
    /\ CacheIdle
    /\ MulticallIdle
    /\ TipIdle
    /\ MempoolIdle
    /\ EngineIdle
    /\ KillCallsIdle
    /\ SpeedUpIdle
SpecRpc == InitRpc /\ [][RpcNext]_vars

SelectNext == SelectBest
InitSelect ==
    /\ SelectInit
    /\ NonceIdle
    /\ RpcIdle
    /\ KillIdle
    /\ CacheIdle
    /\ MulticallIdle
    /\ TipIdle
    /\ MempoolIdle
    /\ EngineIdle
    /\ KillCallsIdle
    /\ SpeedUpIdle
SpecSelect == InitSelect /\ [][SelectNext]_vars

InitKill ==
    /\ KillInit
    /\ NonceIdle
    /\ SelectIdle
    /\ RpcIdle
    /\ CacheIdle
    /\ MulticallIdle
    /\ TipIdle
    /\ MempoolIdle
    /\ EngineIdle
    /\ KillCallsIdle
    /\ SpeedUpIdle
SpecKill == InitKill /\ [][KillNext]_vars

InitCache ==
    /\ CacheInit
    /\ NonceIdle
    /\ SelectIdle
    /\ RpcIdle
    /\ KillIdle
    /\ MulticallIdle
    /\ TipIdle
    /\ MempoolIdle
    /\ EngineIdle
    /\ KillCallsIdle
    /\ SpeedUpIdle
SpecCache == InitCache /\ [][CacheNext]_vars

InitMulticall ==
    /\ MulticallInit
    /\ NonceIdle
    /\ SelectIdle
    /\ RpcIdle
    /\ KillIdle
    /\ CacheIdle
    /\ TipIdle
    /\ MempoolIdle
    /\ EngineIdle
    /\ KillCallsIdle
    /\ SpeedUpIdle
SpecMulticall == InitMulticall /\ [][MulticallNext]_vars

InitTip ==
    /\ TipInit
    /\ NonceIdle
    /\ SelectIdle
    /\ RpcIdle
    /\ KillIdle
    /\ CacheIdle
    /\ MulticallIdle
    /\ MempoolIdle
    /\ EngineIdle
    /\ KillCallsIdle
    /\ SpeedUpIdle
SpecTip == InitTip /\ [][TipNext]_vars

InitMempool ==
    /\ MempoolInit
    /\ NonceIdle
    /\ SelectIdle
    /\ RpcIdle
    /\ KillIdle
    /\ CacheIdle
    /\ MulticallIdle
    /\ TipIdle
    /\ EngineIdle
    /\ KillCallsIdle
    /\ SpeedUpIdle
SpecMempool == InitMempool /\ [][MempoolNext]_vars
SpecMempoolLive ==
    InitMempool /\ [][MempoolTasksNext]_vars /\ WF_vars(MonitorLoopStep)

\* the engine with a strategy enabled
InitEngine ==
    /\ EngineInit
    /\ strategies # {}
    /\ NonceIdle
    /\ SelectIdle
    /\ RpcIdle
    /\ KillIdle
    /\ CacheIdle
    /\ MulticallIdle
    /\ TipIdle
    /\ MempoolIdle
    /\ KillCallsIdle
    /\ SpeedUpIdle
SpecEngine == InitEngine /\ [][EngineNext]_vars

\* the engine with every strategy disabled, its runner and its feed
InitShutdown ==
    /\ strategies = {}
    /\ EngineInit
    /\ NonceIdle
    /\ SelectIdle
    /\ RpcIdle
    /\ KillIdle
    /\ CacheIdle
    /\ MulticallIdle
    /\ TipIdle
    /\ MempoolIdle
    /\ KillCallsIdle
    /\ SpeedUpIdle
SpecShutdown == InitShutdown /\ [][ShutdownNext]_vars

InitKillCalls ==
    /\ KillCallsInit
    /\ NonceIdle
    /\ SelectIdle
    /\ RpcIdle
    /\ KillInit
    /\ CacheIdle
    /\ MulticallIdle
    /\ TipIdle
    /\ MempoolIdle
    /\ EngineIdle
    /\ SpeedUpIdle
SpecKillCalls == InitKillCalls /\ [][KillCallsNext]_vars

InitSpeedUp ==
    /\ SpeedUpInit
    /\ NonceIdle
    /\ SelectIdle
    /\ RpcIdle
    /\ KillIdle
    /\ CacheIdle
    /\ MulticallIdle
    /\ TipIdle
    /\ MempoolIdle
    /\ EngineIdle
    /\ KillCallsIdle
SpecSpeedUp == InitSpeedUp /\ [][SpeedUpNext]_vars

(***************************************************************************)
(* Properties of the NonceManager                                          *)
(***************************************************************************)
IssuedSet == {issued[i] : i \in 1..Len(issued)}

\* C1: the nonces returned by the get_nonce calls of any tasks since
\* construction or the last resync, starting from next nonce K, are exactly
\* K, K+1, ..., K+N-1 (N the number of calls that returned), none twice.
C1_NonceUniqueness ==
    /\ IssuedSet = startNonce..(startNonce + Len(issued) - 1)
    /\ \A i, j \in 1..Len(issued) : i # j => issued[i] # issued[j]

\* as many allocations as there are tasks have returned since the last
\* resync, the latest of them just now
C1_Witness ==
    /\ Len(issued) >= NumTasks
    /\ last.op = "get_nonce"
    /\ last.result = startNonce + Len(issued) - 1

\* C2: current_nonce never decreases in a step of get_nonce, confirm_nonce,
\* get_pending_count, cancel_transaction, speed_up_transaction,
\* check_stuck_transactions or get_current_nonce; only a step that completes
\* reset_nonce or force_sync may lower it.
C2_NonceMonotone ==
    [][current_nonce' < current_nonce
         => last'.op \in {"reset_nonce", "force_sync"}]_vars

\* the chain count is below current_nonce after allocations, and a
\* non-resync operation has just run on that ledger
C2_Witness ==
    /\ chainCount < current_nonce
    /\ Len(issued) >= 2
    /\ last.op = "get_current_nonce"

\* C3: pending_nonces contains only nonces returned by an earlier get_nonce
\* and not since confirmed (confirm_nonce) or cancelled (cancel_transaction).
C3_PendingOnlyLive == pending_nonces \subseteq live

\* C4: after reset_nonce completes, pending_nonces is empty and current_nonce
\* equals the network's transaction count for the executor address.
C4_ResetReadsChain ==
    last.op = "reset_nonce" => /\ pending_nonces = {}
                               /\ current_nonce = chainCount

(***************************************************************************)
(* Properties of the StrategyManager                                       *)
(***************************************************************************)
\* C5: with min_confidence 0.75, A(profit 50, confidence 0.8, priority 5) and
\* B(profit 51, confidence 0.9, priority 2), passed in either order, the
\* selection returns A.
C5_RankingExample ==
    ( /\ selPc = "done"
      /\ min_confidence = 75
      /\ opportunities \in {<<OppA, OppB>>, <<OppB, OppA>>} )
    => selected = OppA

C5_Witness ==
    /\ selPc = "done"
    /\ min_confidence = 75
    /\ opportunities = <<OppB, OppA>>
    /\ selected = OppA

\* whether an entry of the list meets the confidence threshold, a missing
\* confidence counting as 0
MeetsThreshold(o) ==
    /\ ~IsNone(o)
    /\ (IF "confidence" \in DOMAIN o THEN o.confidence ELSE 0) >= min_confidence

\* C6: the selection never returns an opportunity whose confidence (0 when
\* missing) is below min_confidence_score, and returns None when no
\* opportunity meets the threshold.
C6_ConfidenceFilter ==
    selPc = "done" =>
        /\ ~IsNone(selected) => MeetsThreshold(selected)
        /\ (\A i \in 1..Len(opportunities) : ~MeetsThreshold(opportunities[i]))
               => IsNone(selected)

\* an opportunity was returned although the list holds one of higher profit
\* below the threshold and one without a confidence
C6_Witness ==
    /\ selPc = "done"
    /\ ~IsNone(selected)
    /\ \E i, j \in 1..Len(opportunities) :
          /\ ~IsNone(opportunities[i]) /\ ~IsNone(opportunities[j])
          /\ "confidence" \in DOMAIN opportunities[i]
          /\ opportunities[i].confidence < min_confidence
          /\ opportunities[i].expected_profit_usd > selected.expected_profit_usd
          /\ "confidence" \notin DOMAIN opportunities[j]

ConfidentIdx == {i \in 1..Len(opportunities) : MeetsThreshold(opportunities[i])}
TopProfit ==
    CHOOSE p \in {opportunities[i].expected_profit_usd : i \in ConfidentIdx} :
        \A i \in ConfidentIdx : opportunities[i].expected_profit_usd <= p
BandIdx == {i \in ConfidentIdx :
               TopProfit - opportunities[i].expected_profit_usd <= 2}

\* C7: the selection returns, among the confident opportunities whose profit
\* is within $2 of the highest confident profit, one of the highest strategy
\* priority; a top-profit opportunity alone in the band is the one returned.
C7_BandTieBreak ==
    (selPc = "done" /\ ConfidentIdx # {}) =>
        /\ \E i \in BandIdx :
              /\ selected = opportunities[i]
              /\ \A j \in BandIdx :
                    Priority(opportunities[j].strategy)
                        <= Priority(opportunities[i].strategy)
        /\ Cardinality(BandIdx) = 1 =>
              selected.expected_profit_usd = TopProfit

\* the returned opportunity is not the most profitable one, and a confident
\* opportunity of higher priority was left out because it is outside the band
C7_Witness ==
    /\ selPc = "done"
    /\ ConfidentIdx # {}
    /\ selected.expected_profit_usd < TopProfit
    /\ \E j \in ConfidentIdx \ BandIdx :
          Priority(opportunities[j].strategy) > Priority(selected.strategy)

(***************************************************************************)
(* Properties of the RPCManager                                            *)
(***************************************************************************)
\* the tier after t in the fallback sequence exists
HasNextInSequence(t) ==
    /\ InSeq(fallback_sequence, t)
    /\ IndexOf(fallback_sequence, t) < Len(fallback_sequence)
NextInSequence(t) == fallback_sequence[IndexOf(fallback_sequence, t) + 1]

\* C8: when a request of make_call gets a rate-limit error on the current
\* tier and the fallback sequence has a next tier, current_tier becomes that
\* tier, and the next request (the retry, or the next call without a tier
\* argument) is sent to that tier's endpoint.
C8_FailoverDispatch ==
    lastReq.outcome # "none" =>
        /\ ( /\ lastReq.outcome = "rate_limit"
             /\ lastReq.tier = lastReq.current
             /\ lastReq.endpoint = lastReq.tier
             /\ HasNextInSequence(lastReq.tier) )
           => lastReq.after = NextInSequence(lastReq.tier)
        /\ lastReq.expected # NoTier => lastReq.endpoint = lastReq.expected

\* C9: a rate-limit error on the last tier of the fallback sequence ends
\* make_call at once by raising the 'exhausted' error: the call does not
\* return normally and sends no further request.
C9_ExhaustedRaises ==
    ( /\ lastReq.outcome = "rate_limit"
      /\ lastReq.tier = fallback_sequence[Len(fallback_sequence)] )
    => /\ rpcPc = "idle"
       /\ callResult = "raised_exhausted"

\* one call was made; tier_1, tier_2 and tier_3 were rate-limited in turn and
\* the call raised on its third attempt
C9_Witness ==
    /\ calls = 1
    /\ callResult = "raised_exhausted"
    /\ attempt = 2
    /\ Len(fallback_sequence) = 3
    /\ lastReq.tier = "tier_3"
    /\ \A t \in {"tier_1", "tier_2", "tier_3"} : usage_stats[t].failures = 1

\* how far down the fallback sequence a tier is; a tier outside it ranks last
Rank(t) == IF InSeq(fallback_sequence, t) THEN IndexOf(fallback_sequence, t)
                                           ELSE Len(fallback_sequence) + 1

\* C10: no step of make_call moves current_tier to a tier earlier in the
\* fallback sequence; only reset_tier_to_primary and force_tier do.
C10_NoAutoPromotion ==
    [][rpcPc = "loop" => Rank(current_tier') >= Rank(current_tier)]_vars

\* a step of make_call in which a request failed with an error that is not a
\* rate limit
OtherErrorStep ==
    /\ rpcPc = "loop"
    /\ lastReq'.outcome = "error"
    /\ <<attempt, rpcPc>>' # <<attempt, rpcPc>>

\* C11: a request of make_call that fails with an error other than a rate
\* limit leaves current_tier unchanged; on the first or second attempt of the
\* call the request is retried on the same tier, on the third attempt the
\* error is raised to the caller.
C11_ErrorRetriesSameTier ==
    [][OtherErrorStep =>
          /\ current_tier' = current_tier
          /\ lastReq'.after = lastReq'.current
          /\ IF attempt + 1 < 3
             THEN /\ rpcPc' = "loop"
                  /\ attempt' = attempt + 1
                  /\ tier_name' = tier_name
             ELSE /\ rpcPc' = "idle"
                  /\ callResult' = "raised_error"]_vars

\* the call sent three requests to tier_1, each failed with an error that is
\* not a rate limit, and the third error was raised
C11_Witness ==
    /\ calls = 1
    /\ callResult = "raised_error"
    /\ attempt = 2
    /\ lastReq.outcome = "error"
    /\ lastReq.tier = "tier_1"
    /\ lastReq.endpoint = "tier_1"
    /\ current_tier = "tier_1"
    /\ \A t \in tiers : usage_stats[t] = ZeroStats

(***************************************************************************)
(* Properties of the KillSwitch                                            *)
(***************************************************************************)
\* the step is a run of the operation o (every operation records itself in
\* ksLast; the clock moves only between operations)
KillStep(o) == clock' = clock /\ ksLast'.op = o

\* the tripped state is left as it is
SwitchUnchanged ==
    /\ triggered' = triggered
    /\ trigger_reason' = trigger_reason
    /\ trigger_time' = trigger_time

\* C12: once triggered is true it stays true through record_loss,
\* record_failed_transaction, trigger, check_daily_loss, get_status and day
\* rollovers; only reset() sets it back to false.
C12_TrippedUntilReset ==
    [][(triggered /\ ~triggered') => KillStep("reset")]_vars

\* the switch tripped on a loss, the day advanced, and the failure recorded on
\* the new day rolled the counters over; the switch is still tripped
C12_Witness ==
    /\ triggered
    /\ trigger_reason.kind = "loss"
    /\ trigger_time \div DayLength < last_reset_day
    /\ ksLast.op = "record_failed_transaction"
    /\ daily_loss = 0
    /\ failed_tx_count = 1

\* C13: once the switch has tripped because daily_loss reached the ceiling,
\* a further record_loss sends no kill-switch notification and leaves
\* triggered, trigger_reason and trigger_time as they are.
C13_TripIdempotent ==
    [][( /\ triggered
         /\ trigger_reason.kind = "loss"
         /\ KillStep("record_loss") )
       => /\ ksLast'.alert = "none"
          /\ triggered'
          /\ SwitchUnchanged]_vars

\* the switch tripped at the ceiling and a later record_loss added to
\* daily_loss without a notification
C13_Witness ==
    /\ triggered
    /\ trigger_reason.kind = "loss"
    /\ trigger_reason.amount >= max_daily_loss_usd
    /\ ksLast = [op |-> "record_loss", alert |-> "none"]
    /\ daily_loss > trigger_reason.amount
    /\ last_reset_day = trigger_time \div DayLength

\* C14: after a record_loss that brought daily_loss to or above
\* max_daily_loss_usd, and after the trigger requested by manual_trigger has
\* run, the switch is tripped.
C14_TripsOnCeilingOrManual ==
    /\ (ksLast.op = "record_loss" /\ daily_loss >= max_daily_loss_usd) => triggered
    /\ ksLast.op = "trigger_task" => triggered

\* C15 as stated: a record_failed_transaction that brings failed_tx_count to
\* max_failed_tx or above leaves triggered, trigger_reason and daily_loss
\* unchanged.
C15_FailureLeavesLoss ==
    [][( /\ KillStep("record_failed_transaction")
         /\ failed_tx_count' >= max_failed_tx )
       => /\ triggered' = triggered
          /\ trigger_reason' = trigger_reason
          /\ daily_loss' = daily_loss]_vars

\* C15: record_failed_transaction never trips the switch: it leaves triggered,
\* trigger_reason and trigger_time unchanged, sends the 'high' notification
\* exactly when failed_tx_count has reached max_failed_tx and an alert system
\* is set, and leaves daily_loss unchanged unless the day index has advanced
\* since the last rollover, in which case it zeroes daily_loss.
C15_FailureNeverTrips ==
    [][KillStep("record_failed_transaction")
       => /\ SwitchUnchanged
          /\ ksLast'.alert =
                 IF failed_tx_count' >= max_failed_tx /\ alert_system
                 THEN "high" ELSE "none"
          /\ daily_loss' =
                 IF _get_current_day > last_reset_day THEN 0 ELSE daily_loss]_vars

\* more failures than max_failed_tx were recorded on a day with a loss below
\* the ceiling: the notification went out, the switch is not tripped
C15_Witness ==
    /\ failed_tx_count > max_failed_tx
    /\ ksLast = [op |-> "record_failed_transaction", alert |-> "high"]
    /\ ~triggered
    /\ trigger_reason = NoReason
    /\ daily_loss > 0

\* the operations that start with _reset_daily_counters()
RolloverOps ==
    {"record_loss", "record_failed_transaction", "check_daily_loss", "get_status"}

\* C16 as stated: the first operation after the day index advanced zeroes
\* daily_loss and failed_tx_count and leaves triggered, trigger_reason and
\* trigger_time as they were.
C16_NextOperationResets ==
    [][( /\ clock' = clock
         /\ _get_current_day > last_reset_day )
       => /\ daily_loss' = 0
          /\ failed_tx_count' = 0
          /\ SwitchUnchanged]_vars

\* C16: when the day index has advanced, the next record_loss,
\* record_failed_transaction, check_daily_loss or get_status starts by zeroing
\* daily_loss and failed_tx_count: check_daily_loss and get_status leave both
\* at zero and the tripped state as it was; record_failed_transaction leaves
\* daily_loss at zero, failed_tx_count at one and the tripped state as it was;
\* record_loss leaves failed_tx_count at zero and daily_loss at the new loss,
\* and changes the tripped state only by tripping on that loss.
C16_RolloverOnCountingOps ==
    [][( /\ clock' = clock
         /\ _get_current_day > last_reset_day
         /\ ksLast'.op \in RolloverOps )
       => /\ last_reset_day' = _get_current_day
          /\ ksLast'.op \in {"check_daily_loss", "get_status"}
                => daily_loss' = 0 /\ failed_tx_count' = 0 /\ SwitchUnchanged
          /\ ksLast'.op = "record_failed_transaction"
                => daily_loss' = 0 /\ failed_tx_count' = 1 /\ SwitchUnchanged
          /\ ksLast'.op = "record_loss"
                => /\ failed_tx_count' = 0
                   /\ daily_loss' \in {Abs(l) : l \in Losses}
                   /\ \/ SwitchUnchanged
                      \/ /\ ~triggered /\ triggered'
                         /\ daily_loss' >= max_daily_loss_usd
                         /\ trigger_reason' =
                                [kind |-> "loss", amount |-> daily_loss']]_vars

\* the switch tripped on a loss, the day advanced, and check_daily_loss rolled
\* the counters over: both are zero and the tripped state is the prior day's
C16_Witness ==
    /\ ksLast.op = "check_daily_loss"
    /\ last_reset_day > trigger_time \div DayLength
    /\ daily_loss = 0
    /\ failed_tx_count = 0
    /\ triggered
    /\ trigger_reason.kind = "loss"
    /\ trigger_reason.amount >= max_daily_loss_usd

(***************************************************************************)
(* Properties of the DataCache                                             *)
(***************************************************************************)
\* w is the value v as JSON carries it: v itself, or the list of a tuple's items
SameJsonValue(v, w) ==
    \/ w = v
    \/ v.t = "tuple" /\ w = [t |-> "list", v |-> v.v]

\* C17: a get of a key whose entry was stored by set(key, value, ttl) returns
\* that value while the entry's age is at most ttl and leaves the entry in
\* place; once the age exceeds ttl, get returns None and removes the entry
\* itself, without clear_expired or delete.
C17_TtlExpiry ==
    [][\A k \in CacheKeys :
          ( /\ cache_time' = cache_time
            /\ cacheLast'.op = "get"
            /\ cacheLast'.key = k
            /\ cache[k] # NoRow )
          => IF cache_time - cache[k].timestamp <= cache[k].ttl
             THEN /\ SameJsonValue(setValue[k], cacheLast'.result)
                  /\ cache'[k] = cache[k]
             ELSE /\ cacheLast'.result = PyNone
                  /\ cache'[k] = NoRow]_vars

\* an entry set with ttl 1 was removed by a get at age 2: the get returned
\* None and the other key's entry, expired too, is still in the table
C17_Witness ==
    /\ cacheLast = [op |-> "get", key |-> "a", result |-> PyNone]
    /\ cache["a"] = NoRow
    /\ setValue["a"] = PyTuple
    /\ cache["b"] # NoRow
    /\ cache["b"].timestamp + cache["b"].ttl < cache_time

(***************************************************************************)
(* Properties of the Multicall                                             *)
(***************************************************************************)
\* the call fails: its target is malformed or it reverts
Fails(c) == ~c.target_ok \/ ~c.success

\* the chunk the i-th call of the batch is sent in
ChunkOf(i) == (i - 1) \div chunk_size + 1

\* every round trip of the finished aggregate worked
AllRoundTripsOk == \A k \in 1..Len(chunk_ok) : chunk_ok[k]

\* C18: when aggregate has returned for a batch in which exactly one call
\* fails (and every round trip worked), the result at that index is None and
\* every other index holds the return data of its own call.
C18_BatchIsolation ==
    ( /\ mcPc = "done"
      /\ AllRoundTripsOk
      /\ Cardinality({i \in 1..Len(mc_calls) : Fails(mc_calls[i])}) = 1 )
    => /\ Len(mcResult) = Len(mc_calls)
       /\ \A i \in 1..Len(mc_calls) :
             mcResult[i] = IF Fails(mc_calls[i]) THEN NoneResult
                           ELSE mc_calls[i].return_data

\* C19: when aggregate has returned, the result has the length of the batch
\* and its i-th element is the result of the i-th call alone (its return
\* data, or None if the call failed or returned nothing, or if the round
\* trip of its chunk failed), whatever chunk_size is.
C19_OrderAndLength ==
    mcPc = "done" =>
        /\ Len(mcResult) = Len(mc_calls)
        /\ \A i \in 1..Len(mc_calls) :
              mcResult[i] = IF chunk_ok[ChunkOf(i)] THEN Decode(mc_calls[i])
                            ELSE NoneResult

(***************************************************************************)
(* Properties of the TipOptimizer                                          *)
(***************************************************************************)
\* C20: the value calculate_optimal_tip returns is at least min_tip, at most
\* max_tip and, when the opportunity states its expected profit, at most
\* 10% of that profit, on the error path too.
C20_TipBounds ==
    tipPc = "done" =>
        /\ optimal_tip_wei >= min_tip_gwei * TipUnit
        /\ optimal_tip_wei <= max_tip_gwei * TipUnit
        /\ "expected_profit_usd" \in DOMAIN opportunity
              => optimal_tip_wei <= max_acceptable_tip(opportunity.expected_profit_usd)
(***************************************************************************)
(* Properties of the MempoolMonitor                                        *)
(***************************************************************************)
\* C21: a read of the candidate cache (get_pending_transactions or
\* get_transaction) returns no candidate that was inserted more than 60
\* seconds (MaxAge ticks) before the read.
C21_NoStaleRead ==
    mpLast.op \in {"get_pending_transactions", "get_transaction"}
    => \A h \in mpLast.returned : mp_time - pending_txs[h] <= MaxAge

\* the longest delay between a receive error, or a failed reconnect, and the
\* next reconnect attempt: sleep(1) and sleep(5)
MaxReconnectDelay == 6

\* the handler of the monitor loop caught an error of the receive
ReceiveError == loopPc = "recv" /\ loopPc' = "sleep1"

\* C22: a receive error in the monitor loop leaves the feed disconnected
\* and, while the feed is running, is followed by a reconnect attempt of the
\* loop, every time, unless a connect call of another task has connected
\* the feed again; the attempt comes after at most 6 seconds of sleep; the
\* loop exits only once stop() has been called.
C22_ErrorThenReconnect ==
    /\ [][ReceiveError => ~ws_connected']_vars
    /\ awaiting_reconnect ~> (~awaiting_reconnect \/ ws_connected \/ ~mp_running)
    /\ [](loopPc = "exited" => ~mp_running)
    /\ [](slept <= MaxReconnectDelay)

\* a receive error was followed by the two sleeps and the loop has made its
\* reconnect attempt, which waits in websockets.connect, the feed still
\* running and disconnected
C22_Witness ==
    /\ ~awaiting_reconnect
    /\ loopPc = "open"
    /\ slept = 6
    /\ mp_running
    /\ ~ws_connected
(***************************************************************************)
(* Properties of the MEVBotEngine                                          *)
(***************************************************************************)
\* a step of main_loop that ran a cycle
CycleStep == cycle'.tick # cycle.tick

\* C23: the engine starts no execution and submits no transaction in a step
\* in which the kill switch is tripped, before or after the step; once the
\* switch is tripped no execution starts until reset() has cleared it.
C23_NoExecutionWhileTripped ==
    [][(CycleStep /\ (cycle'.executed \/ cycle'.submitted))
          => (~triggered /\ ~triggered')]_vars

\* the switch was tripped by the operator while the loop slept after an
\* executed cycle; the next step of the loop was the shutdown, not a cycle
C23_Witness ==
    /\ triggered
    /\ trigger_reason.kind = "manual"
    /\ shutdown.reached
    /\ stopPc = "none"
    /\ ~running
    /\ ~cycle.executed

\* the outcomes of an opportunity that was executed up to the send step
ExecutedOutcomes == {"success", "reverted", "no receipt", "send failed"}

\* C24: the step that ends an executed opportunity, whatever its outcome,
\* records the realized profit or loss into the kill switch.
C24_OutcomeRecorded ==
    [][(cycle' # cycle /\ cycle'.executed /\ cycle'.outcome \in ExecutedOutcomes)
          => ksLast'.op = "record_loss"]_vars

\* C25: the confirmation wait ends within the timeout, and an execution that
\* ended without a receipt was handed to nonce recovery.
C25_StuckHandedToRecovery ==
    /\ waited <= ConfirmTimeout
    /\ cycle.outcome = "no receipt" => cycle.recovery \in {"speed-up", "cancel"}

\* the texts the claim calls revert-like
RevertLike ==
    {e \in SimErrors : \E sub \in {"revert", "insufficient", "execution reverted"} :
                          Contains(sub, lower(e))}

\* C26: a simulated transaction whose simulation failed with a revert-like
\* error is not submitted in the cycle and the cycle is over (no retry); after
\* any other simulation error the execution goes on to the send step.
C26_SimulationGate ==
    cycle.simulated =>
       /\ cycle.sim_error \in RevertLike =>
             /\ ~cycle.sent
             /\ ~cycle.submitted
             /\ cycle.outcome = "simulation rejected"
             /\ enginePc # "confirming"
       /\ cycle.sim_error \notin RevertLike => cycle.sent

\* a cycle ended at the simulation, which failed for insufficient funds
C26_Witness ==
    /\ cycle.simulated
    /\ cycle.sim_error = "Insufficient funds for gas"
    /\ cycle.outcome = "simulation rejected"
    /\ ~cycle.sent

\* C27: after a cycle in which an error was raised, and unless the kill
\* switch made the loop shut down, main_loop is still running and at the
\* start of a further cycle; main_loop has returned only if running is false.
C27_ErrorKeepsLoop ==
    /\ (cycle.outcome \in ErrorOutcomes /\ ~shutdown.reached)
          => (running /\ enginePc = "top")
    /\ enginePc = "exited" => ~running

\* a cycle whose building step raised: the failure is recorded and the loop
\* is at the start of the next cycle
C27_Witness ==
    /\ cycle.outcome = "exception"
    /\ cycle.build = "raise"
    /\ ksLast.op = "record_failed_transaction"
    /\ running
    /\ enginePc = "top"

\* C28: once the emergency_shutdown that main_loop entered for a tripped
\* kill switch has run to its end, the withdrawal to the admin wallet was
\* attempted and the operator alert was sent.
C28_ShutdownWithdrawsAndAlerts ==
    (shutdown.reached /\ stopPc = "none" /\ enginePc # "closing")
       => (shutdown.withdrawal = "attempted" /\ shutdown.alert_sent)
(***************************************************************************)
(* Properties of the KillSwitch under concurrent callers                   *)
(***************************************************************************)
\* C29 as stated: daily_loss is the sum of the losses recorded on the day of
\* the clock, failed_tx_count the number of failures recorded on that day,
\* and the trip attempts made since the last reset sent exactly one
\* kill-switch notification.
C29_NoLostUpdateExactlyOne ==
    /\ daily_loss = Page.losses
    /\ failed_tx_count = Page.failures
    /\ trip_attempts > 0 => notifications = 1

\* what the ledger holds for the day the counters were last rolled over to
PageOfCounters ==
    IF recorded.day = last_reset_day THEN recorded
    ELSE [day |-> last_reset_day, losses |-> 0, failures |-> 0]

\* C29, amended: in any order of the calls, daily_loss is the sum of the
\* losses recorded on the day of the last rollover and failed_tx_count the
\* number of failures recorded on that day; the trip attempts made since
\* construction or the last reset sent one notification if the switch is
\* tripped and an alert system is set, and none otherwise.
C29_NoLostUpdate ==
    /\ daily_loss = PageOfCounters.losses
    /\ failed_tx_count = PageOfCounters.failures
    /\ notifications = IF triggered /\ alert_system THEN 1 ELSE 0

\* two losses and a failure were recorded on one day, the second loss
\* tripped the switch, and a further trip attempt followed: one notification
C29_Witness ==
    /\ recorded.losses = 3
    /\ recorded.failures = 1
    /\ daily_loss = 3
    /\ trip_attempts = 2
    /\ notifications = 1
    /\ ksLast.op = "trigger"

(***************************************************************************)
(* Properties of the NonceManager's lock                                   *)
(***************************************************************************)
\* the operations whose locked section calls _sync_nonce, that is, sends a
\* get_transaction_count request
SyncingOps == {"reset_nonce", "force_sync"}

\* a task leaves a locked section in which it synced with the chain
SyncsUnderLock(t) ==
    /\ pc[t] = "locked"
    /\ pc'[t] = "idle"
    /\ call[t].op \in SyncingOps \/ (call[t].op = "get_nonce" /\ current_nonce = NoNonce)

\* C30: no step in which a task sends a get_transaction_count request is
\* taken while the lock is held: the locked sections of get_nonce,
\* reset_nonce and force_sync only do bookkeeping.
C30_NoNetworkCallUnderLock ==
    [][\A t \in Tasks : SyncsUnderLock(t) => lock = NoTask]_vars
(***************************************************************************)
(* Properties of the components' network accesses                          *)
(***************************************************************************)
\* the failover of make_call has just moved current_tier to another tier
Demoted ==
    /\ lastReq.outcome = "rate_limit"
    /\ lastReq.after # lastReq.current
    /\ current_tier = lastReq.after

\* C31: once the failover has demoted current_tier, a network access of any
\* component is dispatched to the new current tier
C31_AccessFollowsCurrentTier ==
    Demoted => \A c \in Components : Dispatch(c) = current_tier

\* the ways a make_call ends by raising
RaisedResults == {"raised_error", "raised_exhausted", "raised_in_handler"}

\* C32: a make_call makes at most max_retries attempts, and once it has
\* ended it has either returned a response or raised
C32_BoundedThenRaises ==
    /\ attempt < max_retries
    /\ (rpcPc = "idle" /\ calls > 0) => callResult \in {"returned"} \cup RaisedResults
(***************************************************************************)
(* Properties of NonceManager.speed_up_transaction                         *)
(***************************************************************************)
\* fee `new` is at least 12.5% above fee `old`, or the field is absent in both
Bumped(old, new) == IF old = NoFee THEN new = NoFee ELSE new * 8 >= old * 9

\* C33: speed_up_transaction returns a transaction with the nonce of the
\* original in which every fee field present is at least 12.5% higher, and it
\* leaves the original and the nonce ledger unchanged
C33_SpeedUpBumpsEveryFee ==
    [][(suPc = "ready" /\ suPc' = "done") =>
          /\ new_tx'.nonce = original_tx.nonce
          /\ Bumped(original_tx.gasPrice, new_tx'.gasPrice)
          /\ Bumped(original_tx.maxFeePerGas, new_tx'.maxFeePerGas)
          /\ Bumped(original_tx.maxPriorityFeePerGas, new_tx'.maxPriorityFeePerGas)
          /\ original_tx' = original_tx
          /\ UNCHANGED <<current_nonce, pending_nonces>>]_vars

(***************************************************************************)
(* Properties of the TipOptimizer's profit bands                           *)
(***************************************************************************)
\* the documented scale of the tip, in tenths: 2.0 above $100, 1.5 above $50
BandScale(profit) ==
    IF profit > 100 * Dollar THEN 20
    ELSE IF profit > 50 * Dollar THEN 15
    ELSE 10

\* C34: before blending and clamping, the tip of a completed
\* calculate_optimal_tip is the tip after the sandwich rule scaled by 1.5 for
\* a profit above $50 and not above $100, by 2.0 above $100, and by 1 at $50
\* or below
C34_ProfitBands ==
    (tipPc = "done" /\ ~TipRaises(opportunity)) =>
        LET base == AfterSandwich(opportunity, min_tip_gwei * TipUnit)
        IN AfterProfitBands(opportunity.expected_profit_usd, base)
               = (base * BandScale(opportunity.expected_profit_usd)) \div 10

(***************************************************************************)
(* Properties of the engine's cycle: polling, pipeline and nonce           *)
(***************************************************************************)
\* the opportunities a cycle executed
Executions(c) == IF c.executed THEN 1 ELSE 0

\* C35: in a cycle that was neither paused nor tripped, every enabled
\* strategy producer was queried exactly once, no disabled one was queried,
\* and at most one opportunity was executed
C35_EachEnabledProducerOnce ==
    cycle.polled =>
        /\ \A s \in StrategyProducers :
              cycle.queried[s] = (IF s \in cycle.enabled THEN 1 ELSE 0)
        /\ Executions(cycle) <= 1

\* C36: in an executed cycle no step follows a failed one: nothing is built
\* after failed pre-checks, nothing is simulated or sent after a failed build,
\* and nothing is sent after a rejected simulation
C36_ShortCircuit ==
    cycle.executed =>
        /\ cycle.outcome = "pre-checks failed" =>
              (cycle.build = "none" /\ ~cycle.simulated /\ ~cycle.sent)
        /\ cycle.build \in {"empty", "raise"} =>
              (~cycle.simulated /\ ~cycle.sent /\ ~cycle.submitted)
        /\ cycle.outcome = "simulation rejected" =>
              (~cycle.sent /\ ~cycle.submitted)

\* C37: a cycle that reaches the send step allocates exactly one nonce from
\* the NonceManager (current_nonce advances by one and the nonce enters
\* pending_nonces), after the simulation, and the transaction sent carries
\* that integer
C37_SendAllocatesNonce ==
    [][(CycleStep /\ cycle'.sent) =>
          /\ cycle'.simulated
          /\ cycle'.nonce = "integer"
          /\ current_nonce' = current_nonce + 1
          /\ pending_nonces' = pending_nonces \cup {current_nonce}]_vars

(***************************************************************************)
(* Further properties of the NonceManager's ledger                         *)
(***************************************************************************)
\* C38: every nonce in pending_nonces is below current_nonce, so the next
\* get_nonce does not return a nonce that is still in flight
C38_PendingBelowCurrent ==
    \A n \in pending_nonces : n < current_nonce

(***************************************************************************)
(* Further properties of the MempoolMonitor                                *)
(***************************************************************************)
\* the monitor loop's reconnect attempt opened a connection and subscribed
Reconnected == loopPc = "open" /\ loopPc' = "send" /\ ws_connected'

\* C39: once stop() has been called the monitor loop opens no connection and
\* creates no subscription, wherever the loop was when stop() was called
C39_NoConnectAfterStop ==
    [][Reconnected => mp_running]_vars

\* a reset_nonce or force_sync ends whose network read failed
FailedResync ==
    \E t \in Tasks :
        /\ pc[t] = "locked"
        /\ call[t].op \in {"reset_nonce", "force_sync"}
        /\ pc'[t] = "idle"
        /\ last'.result = 0

\* C40: a resync whose network read fails leaves current_nonce unchanged
C40_FailedSyncKeepsNonce ==
    [][FailedResync => current_nonce' = current_nonce]_vars

====
